---- MODULE Spec2Model ----
(***************************************************************************)
(* A model of the Dooya RS-485 controller (custom_components/dooya_rs485): *)
(* the DooyaController's connection handling, its exclusive gate, the      *)
(* command executor with retry, the frame codec and the address            *)
(* provisioning handshake, run by three asyncio tasks (the poller, a user  *)
(* command and an administrative caller) on one event loop.                *)
(*                                                                         *)
(* asyncio runs one task at a time and switches tasks only at an await     *)
(* that suspends.  Every action below is therefore the code a task runs    *)
(* from one suspension point to the next; the code between two             *)
(* suspensions is composed from operators that map a state record to a     *)
(* state record, one operator per block of the source.                     *)
(*                                                                         *)
(* The coordinator (DooyaDataUpdateCoordinator) and the cover entity       *)
(* (DooyaCover) call the controller: SpecPoll runs the coordinator's poll  *)
(* cycles alone, SpecCover the entity's handlers alone, both through the   *)
(* same command executor.  SpecCodec applies the frame codec alone to the  *)
(* bytes it may be given, SpecStatus follows the dict of read_all_status   *)
(* field by field, and SpecLive adds the fairness of the event loop.       *)
(* SpecLate follows the replies a connection still owes after an exchange  *)
(* was cut short, SpecDisconnect makes disconnect() the last call, and     *)
(* SpecRace calls a command handler in the middle of an async_update.      *)
(***************************************************************************)
EXTENDS Integers, Sequences, FiniteSets, TLC

----------------------------------------------------------------------------
(* Program constants                                                       *)

START_CODE == 85                     \* 0x55
CURTAIN_READ == 1
CURTAIN_COMMAND == 3
CURTAIN_COMMAND_OPEN == 1
CURTAIN_COMMAND_CLOSE == 2
CURTAIN_COMMAND_STOP == 3
CURTAIN_COMMAND_PERCENT == 4
MOTOR_STATUS_STOPPED == 0
MOTOR_STATUS_ERROR == 2
DEVICE_ADDRESS_SLAVE_REQUEST == 4
DEVICE_ADDRESS_WRITE == 2
DEVICE_ADDRESS_DATA_ADDR == 0
DEVICE_ADDRESS_DATA_LENGTH == 2

CONNECTION_TIMEOUT == 10
COMMAND_TIMEOUT == 5
RECONNECT_DELAY == 2
MAX_RETRIES == 3
\* connect(): for _ in range(50): await asyncio.sleep(0.1), i.e. 5 seconds
CONNECT_WAIT == 5
\* _cleanup_connection(): wait_for(wait_closed(), timeout=2.0)
CLOSE_GRACE == 2
\* program_device_address(): listen while elapsed < 10, reads of 1.0 s
LISTEN_WINDOW == 10
LISTEN_READ_TIMEOUT == 1
CONFIRM_TIMEOUT == 5

\* The registers read_all_status reads, in its order: position, motor
\* status, active switch, passive switch, handle status.
\* self._max_consecutive_errors of the coordinator
max_consecutive_errors == 5

\* A value that is None
None == -1

ReadRegisters == <<2, 5, 40, 39, 4>>

----------------------------------------------------------------------------
(* Bounds of the model                                                     *)

\* Sockets that may exist at once (in flight, open or leaked) before the
\* model stops opening new ones.
MaxSockets == 2

\* The time a timed step may take when it neither is instant nor times out.
MidDuration == 4

\* Operations (commands, polls, address programmings, disconnects) called
\* in one run.
MaxOps == 2

\* Exchanges given up with the connection left open whose replies are
\* followed at once.
MaxUnanswered == 1

\* Handlers of the cover entity called in a run of the entity alone: a
\* command and the updates that follow it.
MaxCoverOps == 3

\* Poll cycles of the coordinator in a run of the poller alone: five
\* failures in a row after a success, or a failure after four failures and
\* a success.
MaxCycles == 6

\* The length of the byte sequences the CRC is computed of, when the codec
\* is applied alone.
MaxLen == 3

\* Poll cycles in a run where the dict of read_all_status is followed field
\* by field: a cycle and the one after it.
MaxStatusCycles == 2

----------------------------------------------------------------------------
(* Frame codec                                                             *)

\* a ^ b on 16 bits, from the most significant bit down
BitXor(a, b) ==
    LET x[i \in 0..16] ==
            IF i = 0 THEN 0
            ELSE ((((a \div 2^(16 - i)) % 2) + ((b \div 2^(16 - i)) % 2)) % 2)
                 + 2 * x[i - 1]
    IN  x[16]

\* One round of the inner loop of calculate_crc:
\* if crc & 0x0001: crc >>= 1; crc ^= 0xA001  else: crc >>= 1
CrcRound(crc) ==
    IF (crc % 2) = 1 THEN BitXor(crc \div 2, 40961) ELSE crc \div 2

\* crc ^= byte, then the eight rounds
CrcByte(crc, byte) ==
    LET c[k \in 0..8] ==
            IF k = 0 THEN BitXor(crc, byte)
            ELSE LET prev == c[k - 1]
                 IN  IF prev \in 0..65535 THEN CrcRound(prev) ELSE prev
    IN  c[8]

\* CRC16 Modbus of data, as two bytes, little-endian.  The crc is a 16-bit
\* value after every byte.
calculate_crc(data) ==
    LET c[i \in 0..Len(data)] ==
            IF i = 0 THEN 65535
            ELSE LET prev == c[i - 1]
                 IN  IF prev \in 0..65535 THEN CrcByte(prev, data[i]) ELSE prev
        crc == c[Len(data)]
    IN  <<crc % 256, crc \div 256>>

\* response[-2:] and response[:-2]
LastTwo(r) == SubSeq(r, Len(r) - 1, Len(r))
ButLastTwo(r) == SubSeq(r, 1, Len(r) - 2)

\* bytes.startswith
StartsWith(r, p) == Len(r) >= Len(p) /\ SubSeq(r, 1, Len(p)) = p

\* A validation that compares the first CRC byte only: what C23 excludes.
validate_low_byte(r) ==
    IF Len(r) < 2 THEN FALSE
    ELSE IF Len(r) = 2 THEN TRUE
    ELSE IF Len(r) >= 4 /\ r[Len(r) - 1] # calculate_crc(ButLastTwo(r))[1]
    THEN FALSE
    ELSE TRUE

\* The validation of a non-empty response in _send_rs485_command_locked:
\* TRUE when the response is returned to the caller, FALSE when None is.
ValidateResponse(r) ==
    IF Len(r) < 2 THEN FALSE
    ELSE IF Len(r) = 2 THEN TRUE
    ELSE IF Len(r) >= 4 /\ LastTwo(r) # calculate_crc(ButLastTwo(r)) THEN FALSE
    ELSE TRUE

\* bytes([...]) accepts only values in range(256)
IsByte(b) == b >= 0 /\ b <= 255

\* A read_cover_position that clamps a position above 100 to 100: what
\* C21 excludes.
read_position_clamped(r) ==
    IF r = <<>> THEN None
    ELSE IF Len(r) = 2 THEN None
    ELSE IF Len(r) < 6 THEN None
    ELSE IF r[6] = 255 THEN None
    ELSE IF r[6] > 100 THEN 100
    ELSE r[6]

\* read_cover_position, from the response _send_command_with_retry
\* returned; <<>> stands for a returned None.
read_cover_position(r) ==
    IF r = <<>> THEN None
    ELSE IF Len(r) = 2 THEN None
    ELSE IF Len(r) < 6 THEN None
    ELSE IF r[6] = 255 THEN None
    ELSE IF r[6] > 100 THEN None
    ELSE r[6]

\* read_motor_status, likewise
read_motor_status(r) ==
    IF r = <<>> THEN None
    ELSE IF Len(r) = 2 THEN None
    ELSE IF Len(r) < 6 THEN None
    ELSE r[6]

\* The value the k-th read of read_all_status puts in the dict: the switch
\* and handle reads take the same byte as read_motor_status does.
ReadValue(k, r) ==
    IF k = 1 THEN read_cover_position(r) ELSE read_motor_status(r)

----------------------------------------------------------------------------
(* Inputs                                                                  *)

Tasks == {"poller", "user", "admin"}
NoTask == "none"

\* The address the controller is constructed with (the factory address).
InitAddr == <<254, 254>>

\* Arguments of program_device_address: a valid pair, a pair with 0x00, a
\* pair with 0xFF, a pair with a value that is no byte.
AddrInputs == {<<2, 3>>, <<0, 3>>, <<2, 255>>, <<256, 3>>}

\* rs485_command of open() and stop()
UserCommands == {<<CURTAIN_COMMAND, CURTAIN_COMMAND_OPEN>>,
                 <<CURTAIN_COMMAND, CURTAIN_COMMAND_STOP>>}

\* rs485_command of the k-th read of read_all_status
ReadCommand(k) == <<CURTAIN_READ, ReadRegisters[k], 1>>

\* expected_request of program_device_address
ExpectedRequest ==
    <<START_CODE, 254, 254, DEVICE_ADDRESS_SLAVE_REQUEST, 1>>

\* A frame whose CRC is appended high byte first: what C22 excludes.
WithCrcBigEndian(d) ==
    LET crc == calculate_crc(d) IN d \o <<crc[2], crc[1]>>

WithCrc(d) == d \o calculate_crc(d)

\* What a read of the socket may return: nothing (end of stream), one
\* byte, a status-only response, three bytes, a four-byte response with its
\* CRC, a data response with its CRC, the same with its last byte changed,
\* the device's address broadcast, and a broadcast for another register.
Responses ==
    { <<>>,
      <<START_CODE>>,
      <<START_CODE, 1>>,
      <<START_CODE, 1, 2>>,
      WithCrc(<<START_CODE, 1>>),
      WithCrc(<<START_CODE, 254, 254, CURTAIN_READ, 2, 50>>),
      <<START_CODE, 254, 254, CURTAIN_READ, 2, 50, 197, 88>>,
      WithCrc(ExpectedRequest),
      WithCrc(<<START_CODE, 254, 254, DEVICE_ADDRESS_SLAVE_REQUEST, 2>>) }

\* What the device may report to the cover entity's reads: for the
\* position, fully closed, nearly closed, half way, further open, nearly
\* open and fully open; for the motor, stopped or in error; for the
\* switches and the handle, normal.
PositionBytes == {0, 3, 50, 80, 97, 100}
MotorBytes == {MOTOR_STATUS_STOPPED, MOTOR_STATUS_ERROR}
ReplyBytes(k) ==
    IF k = 1 THEN PositionBytes ELSE IF k = 2 THEN MotorBytes ELSE {0}

\* The device's data response to the k-th read, and its response to a
\* command
Replies ==
    [k \in 1..Len(ReadRegisters) |->
        {WithCrc(<<START_CODE, 254, 254, CURTAIN_READ, ReadRegisters[k], b>>) :
            b \in ReplyBytes(k)}]
CommandReplies == {<<START_CODE, 1>>}

\* The device's responses to the frame of rs485_command c
RepliesTo(c) ==
    IF \E k \in 1..Len(ReadRegisters) : c = ReadCommand(k)
    THEN Replies[CHOOSE k \in 1..Len(ReadRegisters) : c = ReadCommand(k)]
    ELSE CommandReplies

\* The positions async_set_cover_position is called with: a percentage, a
\* byte that is no percentage, a value that is no byte
SetPositions == {50, 150, 256}

\* The outcome of the validation for each response, computed once.
Validated ==
    [r \in Responses \cup CommandReplies
              \cup UNION {Replies[k] : k \in 1..Len(ReadRegisters)} |->
        ValidateResponse(r)]

\* The addresses the controller may come to store, and the commands sent
Addresses == {InitAddr} \cup {a \in AddrInputs : IsByte(a[1]) /\ IsByte(a[2])}
Commands == UserCommands \cup {ReadCommand(k) : k \in 1..Len(ReadRegisters)}

\* command = bytes([START_CODE, device_id_l, device_id_h]) + rs485_command,
\* followed by its CRC
BuildFrame(l, h, c) == WithCrc(<<START_CODE, l, h>> \o c)

\* The write-address frame of program_device_address: the fixed header,
\* the two address bytes, the CRC
BuildAddressFrame(l, h) ==
    WithCrc(<<START_CODE, 0, 0, DEVICE_ADDRESS_WRITE, DEVICE_ADDRESS_DATA_ADDR,
              DEVICE_ADDRESS_DATA_LENGTH, l, h>>)

\* The frames, computed once
Frames == [a \in Addresses, c \in Commands |-> BuildFrame(a[1], a[2], c)]
AddressFrames == [a \in Addresses |-> BuildAddressFrame(a[1], a[2])]

\* The values of a byte, and the ones the byte sequences below are made of
Bytes == 0..255
SampleBytes == {0, 1, START_CODE, 255}

\* The byte sequences of length 0 to MaxLen
ByteSeqs == UNION {[1..n -> SampleBytes] : n \in 0..MaxLen}

\* What the controller computes a CRC of: any bytes, and the frames it
\* builds, before their CRC
FrameBodies ==
    {<<START_CODE, a[1], a[2]>> \o c : a \in Addresses, c \in Commands}
        \cup {<<START_CODE, 0, 0, DEVICE_ADDRESS_WRITE, DEVICE_ADDRESS_DATA_ADDR,
                DEVICE_ADDRESS_DATA_LENGTH, a[1], a[2]>> : a \in Addresses}
CrcInputs == ByteSeqs \cup FrameBodies

\* What _send_command_with_retry may return to read_cover_position: None,
\* a status-only response, responses of 3, 4 and 5 bytes, and a data
\* response with any byte as its position
PositionResponses ==
    { <<>>, <<START_CODE, 1>>, <<START_CODE, 1, 2>>,
      WithCrc(<<START_CODE, 1>>), WithCrc(<<START_CODE, 254, 254>>) }
        \cup {WithCrc(<<START_CODE, 254, 254, CURTAIN_READ, 2, b>>) : b \in Bytes}

\* r with its last byte changed to b
Tamper(r, b) == [r EXCEPT ![Len(r)] = b]

\* What the validation is given: any two bytes, and responses of four
\* bytes and more with their CRC, as they are and with their last byte
\* changed to any other value
StatusResponses == {<<a, b>> : a, b \in SampleBytes}
SealedResponses ==
    {WithCrc(d) : d \in {e \in ByteSeqs : Len(e) = 2}
                          \cup {<<START_CODE, 254, 254, CURTAIN_READ, 2, 50>>}}
TamperedResponses ==
    UNION {{Tamper(r, b) : b \in Bytes \ {r[Len(r)]}} : r \in SealedResponses}

----------------------------------------------------------------------------
(* State                                                                   *)

VARIABLES
    device_id_l, device_id_h,  \* the stored address
    reader, writer,            \* "none" | "some";  "none" | "open" | "closing"
    connected, connecting,     \* _connected, _connecting
    lock,                      \* the task holding _lock, or NoTask
    closeQ,                    \* tasks awaiting wait_closed() of the current writer, in order
    staleW,                    \* tasks awaiting wait_closed() of an earlier writer
    inflight,                  \* open_connection calls in progress
    live,                      \* sockets established and not closed
    wire,                      \* the frame written in the exchange in progress
    unanswered,                \* the commands whose frames were written on the
                               \* connection and whose exchanges were given
                               \* up with the connection left open, oldest
                               \* first: their replies have not been read.
                               \* Followed in the runs that trace a task.
    disconnects,               \* whether disconnect() has been called
    ops,                       \* operations called so far
    budget,                    \* operations called in a run
    consecutive_errors,        \* _consecutive_errors of the coordinator
    coordinator_data,          \* self.data: the result the last poll cycle returned
    history,                   \* how the latest poll cycles ended
    cover,                     \* the fields of the cover entity
    traced,                    \* the tasks whose answers are followed: the
                               \* dict of read_all_status field by field
    timed,                     \* the tasks whose blocking time is accounted for,
                               \* second by second; the other tasks' steps take
                               \* any time and their timeouts fire at any moment
    task                       \* per task: its position and its locals

vars == <<device_id_l, device_id_h, reader, writer, connected, connecting,
          lock, closeQ, staleW, inflight, live, wire, unanswered,
          disconnects, ops,
          budget, consecutive_errors, coordinator_data, history,
          cover, traced, timed, task>>

\* The locals of a task that runs no operation.
IdleTask ==
    [ pc |-> "idle",          \* where the task is suspended
      op |-> "none",          \* "cmd" | "prog" | "poll" | "disc"
      cmd |-> <<>>,           \* rs485_command
      attempt |-> 0,          \* the loop variable of _send_command_with_retry
      tries |-> 0,            \* calls of send_rs485_command by this command
      ret |-> "pending",      \* "None" | "resp" | "True" | "False" | "dict"
                              \* | "last" | "UpdateFailed"
      resp |-> <<>>,          \* the response returned
      new_id_l |-> 0, new_id_h |-> 0,
      readIdx |-> 0,          \* the read of read_all_status in progress
      usable |-> FALSE,       \* a value of the dict being read is not None
      call |-> "none",        \* the handler of the cover entity that runs the
                              \* operation: "update" | "open" | "close" |
                              \* "stop" | "set"
      position |-> None,      \* position of async_set_cover_position
      pos |-> None,           \* pos of async_update
      motor_status |-> None,  \* motor_status of async_update
      elapsed |-> 0,          \* seconds since asyncio.timeout() was entered
      blocked |-> 0,          \* seconds since the command was called
      listenT |-> 0,          \* seconds since the listen window opened
      overdue |-> FALSE,      \* waited for the gate longer than CONNECTION_TIMEOUT
      request |-> <<>>,       \* the frame that ended the listen loop
      confirm |-> <<>>,       \* the confirmation response received
      raw |-> <<>>,           \* the bytes the codec was applied to
      result |-> <<>>,        \* result of read_all_status, in the order of
                              \* its reads
      answers |-> <<>>,       \* what each read's command returned
      torn |-> FALSE,         \* the attempt before, or this one, failed in a
                              \* branch that calls _cleanup_connection, and
                              \* no frame was written since
      io |-> FALSE ]          \* used the connection during this operation

\* The coordinator has no data before its first cycle returns.  A dict of
\* read_all_status is known by the cycle that read it; kind "empty" is the
\* {} a failed cycle
\* returns when there is nothing to return.
NoData == [kind |-> "none", cycle |-> 0]
EmptyData == [kind |-> "empty", cycle |-> 0]

\* No poll cycle has ended: cycles counts the cycles ended, failed the
\* latest cycles in a row whose reconnect failed, silent those in a row
\* whose reads all returned None, ended the failed cycles in a row that the
\* latest completed cycle ended.
NoHistory == [cycles |-> 0, failed |-> 0, silent |-> 0, ended |-> 0]

\* The dict read_all_status begins with: every field None.  No read has
\* returned yet.
NoResult == [k \in 1..Len(ReadRegisters) |-> None]
NoAnswers == [k \in 1..Len(ReadRegisters) |-> <<>>]

\* DooyaCover.__init__.  The switch, handle and version fields are
\* attributes the entity only reports; they are left out.
NewCover ==
    [ state |-> "unknown",
      current_position |-> None,
      target_position |-> None,
      last_position |-> None,
      motor_status |-> None,
      error_count |-> 0 ]

Controller ==
    /\ device_id_l = InitAddr[1]
    /\ device_id_h = InitAddr[2]
    /\ reader = "none"
    /\ writer = "none"
    /\ connected = FALSE
    /\ connecting = FALSE
    /\ lock = NoTask
    /\ closeQ = <<>>
    /\ staleW = {}
    /\ inflight = 0
    /\ live = 0
    /\ wire = <<>>
    /\ unanswered = <<>>
    /\ disconnects = FALSE
    /\ ops = 0
    /\ consecutive_errors = 0
    /\ coordinator_data = NoData
    /\ history = NoHistory
    /\ cover = NewCover
    /\ task = [t \in Tasks |-> IdleTask]

\* No step is timed.
Init == Controller /\ timed = {} /\ budget = MaxOps /\ traced = {}

\* The steps of the user's command are timed.
InitTimed ==
    Controller /\ timed = {"user"} /\ budget = MaxOps /\ traced = {}

\* The coordinator's poll cycles, one after the other.
InitPoll == Controller /\ timed = {} /\ budget = MaxCycles /\ traced = {}

\* Two poll cycles, the fields of their dicts followed.
InitStatus ==
    Controller /\ timed = {} /\ budget = MaxStatusCycles
        /\ traced = {"poller"}

\* The user's command and the poll cycle, the steps of the poll cycle
\* timed; what the command is answered and the replies the connection
\* still owes are followed.
InitLate ==
    Controller /\ timed = {"poller"} /\ budget = MaxOps
        /\ traced = {"user"}

\* The cover entity's handlers, one after the other.
InitCover ==
    Controller /\ timed = {} /\ budget = MaxCoverOps /\ traced = {}

\* The state as a record, for the operators that compose a step.
State ==
    [ device_id_l |-> device_id_l, device_id_h |-> device_id_h,
      reader |-> reader, writer |-> writer,
      connected |-> connected, connecting |-> connecting,
      lock |-> lock, closeQ |-> closeQ, staleW |-> staleW,
      inflight |-> inflight, live |-> live, wire |-> wire,
      unanswered |-> unanswered,
      disconnects |-> disconnects, ops |-> ops, budget |-> budget,
      consecutive_errors |-> consecutive_errors, data |-> coordinator_data,
      history |-> history, cover |-> cover, traced |-> traced,
      timed |-> timed,
      task |-> task ]

\* The step leads to state s (v is s, computed once).
Becomes(s) ==
    \E v \in {s} :
        /\ v.inflight + v.live <= MaxSockets
        /\ device_id_l' = v.device_id_l
        /\ device_id_h' = v.device_id_h
        /\ reader' = v.reader
        /\ writer' = v.writer
        /\ connected' = v.connected
        /\ connecting' = v.connecting
        /\ lock' = v.lock
        /\ closeQ' = v.closeQ
        /\ staleW' = v.staleW
        /\ inflight' = v.inflight
        /\ live' = v.live
        /\ wire' = v.wire
        /\ unanswered' = v.unanswered
        /\ disconnects' = v.disconnects
        /\ ops' = v.ops
        /\ budget' = v.budget
        /\ consecutive_errors' = v.consecutive_errors
        /\ coordinator_data' = v.data
        /\ history' = v.history
        /\ cover' = v.cover
        /\ traced' = v.traced
        /\ timed' = v.timed
        /\ task' = v.task

Range(q) == {q[i] : i \in 1..Len(q)}
Without(q, t) == SelectSeq(q, LAMBDA x : x # t)

\* s with field f of task t's locals set to v
Pc(s, t, v) == [s EXCEPT !.task[t].pc = v]

----------------------------------------------------------------------------
(* Time                                                                    *)

\* Task t is inside the asyncio.timeout(CONNECTION_TIMEOUT) of
\* send_rs485_command.
InScope(s, t) == s.task[t].op \in {"cmd", "read"}

\* A step of task t under a timeout of limit seconds may complete after d.
MayComplete(s, t, d, limit) ==
    IF t \in s.timed
    THEN /\ d \in {0, MidDuration}
         /\ d < limit
         /\ InScope(s, t) => s.task[t].elapsed + d < CONNECTION_TIMEOUT
    ELSE d = 0

\* A step whose own timeout fires whatever time the enclosing
\* asyncio.timeout has left: what the bound of C4 excludes.
NoScope(s, t, limit) == TRUE

\* Its own timeout of limit seconds may fire.
MayTimeOut(s, t, limit) ==
    t \in s.timed /\ InScope(s, t)
        => s.task[t].elapsed + limit <= CONNECTION_TIMEOUT

\* The timeout of send_rs485_command may fire during it.
MayCancel(s, t, limit) ==
    /\ InScope(s, t)
    /\ t \in s.timed => s.task[t].elapsed + limit >= CONNECTION_TIMEOUT

Spend(s, t, d) ==
    IF t \in s.timed
    THEN [s EXCEPT !.task[t].elapsed = @ + d, !.task[t].blocked = @ + d]
    ELSE s

SpendToDeadline(s, t) ==
    Spend(s, t, CONNECTION_TIMEOUT - s.task[t].elapsed)

----------------------------------------------------------------------------
(* The controller's code, block by block                                   *)

is_connected(s) == s.connected /\ s.writer = "open"

GateWaiters(s) == {u \in Tasks : s.task[u].pc = "gate"}

\* self._writer.close() followed by the await of wait_closed()
close_writer(s, t) ==
    [s EXCEPT !.writer = "closing", !.unanswered = <<>>,
              !.live = IF s.writer = "open" THEN @ - 1 ELSE @,
              !.closeQ = Append(@, t)]

\* A cleanup that clears the controller only when the close went well:
\* what C7 excludes.
cleanup_on_success(s, t, outcome) ==
    IF outcome = "closed"
    THEN [s EXCEPT !.reader = "none", !.writer = "none", !.connected = FALSE,
                   !.closeQ = Without(@, t), !.staleW = @ \ {t}]
    ELSE [s EXCEPT !.closeQ = Without(@, t), !.staleW = @ \ {t}]

\* A cleanup that drops the streams and leaves the flag: what C39 excludes.
cleanup_keeps_flag(s, t, outcome) ==
    [s EXCEPT !.reader = "none", !.writer = "none",
              !.closeQ = Without(@, t), !.staleW = @ \ {t}]

\* The finally block of _cleanup_connection, whatever ended the wait:
\* "closed", "timeout", "error" or "cancelled".
cleanup_finally(s, t, outcome) ==
    [s EXCEPT !.reader = "none", !.writer = "none", !.connected = FALSE,
              !.unanswered = <<>>,
              !.closeQ = Without(@, t), !.staleW = @ \ {t}]

\* A command frame that carries the address the controller was constructed
\* with, whatever it stores now: what C31 excludes.
frame_first_address(s, c) == BuildFrame(InitAddr[1], InitAddr[2], c)

\* The frame of an ordinary command
CommandFrame(s, c) ==
    LET a == <<s.device_id_l, s.device_id_h>>
    IN  IF a \in Addresses /\ c \in Commands THEN Frames[a, c]
        ELSE BuildFrame(a[1], a[2], c)

\* The write-address frame of program_device_address
AddressFrame(l, h) ==
    IF <<l, h>> \in Addresses THEN AddressFrames[<<l, h>>]
    ELSE BuildAddressFrame(l, h)

\* _send_rs485_command_locked: build the frame, write it, await drain()
write_and_drain(s, t) ==
    [s EXCEPT !.wire = CommandFrame(s, s.task[t].cmd),
              !.task[t].pc = "drain", !.task[t].io = TRUE,
              !.task[t].torn = FALSE]

\* connect() when no attempt is in progress, to its first await: the flag,
\* _cleanup_connection, open_connection
begin_connect(s, t) ==
    LET s1 == [s EXCEPT !.connecting = TRUE, !.task[t].io = TRUE]
    IN  IF s1.writer # "none"
        THEN close_writer(Pc(s1, t, "conn_cleanup"), t)
        ELSE [s1 EXCEPT !.inflight = @ + 1, !.task[t].pc = "conn_open"]

\* A connect() that does not look at _connecting: what C6 excludes.
connect_anyway(s, t) == begin_connect(s, t)

\* connect(), to its first await
connect(s, t) ==
    IF s.connecting
    THEN [s EXCEPT !.task[t].pc = "conn_wait", !.task[t].io = TRUE]
    ELSE begin_connect(s, t)

\* program_device_address: the listen window opens
start_listen(s, t) ==
    [s EXCEPT !.task[t].pc = "listen", !.task[t].listenT = 0,
              !.task[t].io = TRUE]

\* An ensure_connected() that reconnects whatever is_connected says: what
\* C33 excludes.
reconnect_always(s, t) == connect(s, t)

\* The code run with the gate held, to its first await: ensure_connected()
\* and, when it is connected already, what follows it.
locked_body(s, t) ==
    IF is_connected(s)
    THEN IF s.task[t].op = "prog" THEN start_listen(s, t)
                                  ELSE write_and_drain(s, t)
    ELSE connect(s, t)

\* A gate that lets every caller in at once: what C1 excludes.
enter_at_once(s, t) == locked_body([s EXCEPT !.lock = t], t)

\* async with self._lock: taken at once when it is free and nobody waits
acquire_or_wait(s, t) ==
    IF s.lock = NoTask /\ GateWaiters(s) = {}
    THEN locked_body([s EXCEPT !.lock = t], t)
    ELSE Pc(s, t, "gate")

\* send_rs485_command, to its first await
send_rs485_command(s, t) ==
    acquire_or_wait([s EXCEPT !.task[t].tries = @ + 1,
                              !.task[t].elapsed = 0], t)

\* _send_command_with_retry(c), to its first await
StartCommand(s, t, c) ==
    send_rs485_command(
        [s EXCEPT !.task[t].cmd = c, !.task[t].attempt = 0,
                  !.task[t].tries = 0, !.task[t].torn = FALSE,
                  !.task[t].ret = "pending", !.task[t].resp = <<>>,
                  !.task[t].blocked = 0], t)

\* An operation of task t returns ret: its locals are gone, but for what
\* its caller sees or has measured.
Returns(s, t, ret) ==
    [s EXCEPT !.task[t].pc = "done", !.task[t].ret = ret,
              !.task[t].cmd = <<>>, !.task[t].attempt = 0,
              !.task[t].elapsed = 0, !.task[t].readIdx = 0,
              !.task[t].torn = FALSE]

\* The except branch of a command handler of the cover entity
command_failed(c) ==
    [c EXCEPT !.state = "unknown", !.target_position = None,
              !.error_count = @ + 1]

\* async_open_cover, after self._controller.open() returned
async_open_cover(c) ==
    [c EXCEPT !.state = "opening", !.target_position = 100,
              !.error_count = 0]

\* async_close_cover, after self._controller.close() returned
async_close_cover(c) ==
    [c EXCEPT !.state = "closing", !.target_position = 0, !.error_count = 0]

\* A stop that leaves the target position alone: what C29 excludes.
stop_keeps_target(c) == [c EXCEPT !.error_count = 0]

\* async_stop_cover, after self._controller.stop() returned
async_stop_cover(c) ==
    [c EXCEPT !.target_position = None, !.error_count = 0]

\* async_set_cover_position, after self._controller.set_cover_position
\* returned.  The comparison of position with a _current_position that is
\* None raises TypeError, after the target was assigned: the except branch.
async_set_cover_position(c, position) ==
    LET c1 == [c EXCEPT !.target_position = position]
    IN  IF c.current_position = None THEN command_failed(c1)
        ELSE [c1 EXCEPT !.state = IF position > c.current_position
                                  THEN "opening" ELSE "closing",
                        !.error_count = 0]

\* STATE_OPEN if pos > 50 else STATE_CLOSED
Settled(pos) == IF pos > 50 THEN "open" ELSE "closed"

Abs(x) == IF x < 0 THEN 0 - x ELSE x

\* An intermediate position that settles only when it is the target: what
\* C18 excludes.
intermediate_exact(c, pos) ==
    LET c1 == [c EXCEPT !.current_position = pos]
    IN  IF c.target_position # None
        THEN IF pos = c.target_position
             THEN [c1 EXCEPT !.state = Settled(pos), !.target_position = None]
             ELSE [c1 EXCEPT !.state = IF pos < c.target_position
                                       THEN "opening" ELSE "closing"]
        ELSE [c1 EXCEPT !.state = Settled(pos)]

\* An intermediate position that settles whenever no target is pending:
\* what C28 excludes.
intermediate_settles(c, pos) ==
    LET c1 == [c EXCEPT !.current_position = pos]
    IN  IF c.target_position # None
        THEN IF Abs(pos - c.target_position) <= 5
             THEN [c1 EXCEPT !.state = Settled(pos), !.target_position = None]
             ELSE [c1 EXCEPT !.state = IF pos < c.target_position
                                       THEN "opening" ELSE "closing"]
        ELSE [c1 EXCEPT !.state = Settled(pos)]

\* async_update: a position that is neither 0 nor 100
intermediate_position(c, pos) ==
    LET c1 == [c EXCEPT !.current_position = pos]
    IN  IF c.target_position # None
        THEN IF Abs(pos - c.target_position) <= 5
             THEN [c1 EXCEPT !.state = Settled(pos), !.target_position = None]
             ELSE [c1 EXCEPT !.state = IF pos < c.target_position
                                       THEN "opening" ELSE "closing"]
        ELSE IF c.last_position # None
        THEN [c1 EXCEPT !.state =
                 IF pos > c.last_position THEN "opening"
                 ELSE IF pos < c.last_position THEN "closing"
                 ELSE Settled(pos)]
        ELSE [c1 EXCEPT !.state = Settled(pos)]

\* A position update that leaves the target alone at 0 and at 100: what C17
\* excludes.
position_keeps_target(c, pos) ==
    IF pos = None
    THEN [c EXCEPT !.state = "unknown", !.current_position = None,
                   !.target_position = None]
    ELSE IF pos = 0
    THEN [c EXCEPT !.state = "closed", !.current_position = 0]
    ELSE IF pos = 100
    THEN [c EXCEPT !.state = "open", !.current_position = 100]
    ELSE intermediate_position(c, pos)

\* async_update: "Handle position updates"
position_update(c, pos) ==
    IF pos = None
    THEN [c EXCEPT !.state = "unknown", !.current_position = None,
                   !.target_position = None]
    ELSE IF pos = 0
    THEN [c EXCEPT !.state = "closed", !.current_position = 0,
                   !.target_position = None]
    ELSE IF pos = 100
    THEN [c EXCEPT !.state = "open", !.current_position = 100,
                   !.target_position = None]
    ELSE intermediate_position(c, pos)

\* An update that does not look at the motor status: what C15 excludes.
update_ignores_motor(c, pos, motor_status) ==
    [position_update([c EXCEPT !.motor_status = motor_status], pos)
        EXCEPT !.last_position = pos, !.error_count = 0]

\* async_update, after its reads returned pos and motor_status
async_update(c, pos, motor_status) ==
    LET c1 == [c EXCEPT !.motor_status = motor_status]
    IN  IF motor_status = MOTOR_STATUS_ERROR
        THEN [c1 EXCEPT !.state = "error", !.current_position = None,
                        !.target_position = None]
        ELSE [position_update(c1, pos) EXCEPT !.last_position = pos,
                                               !.error_count = 0]

\* The state property of the entity
state(c) == IF c.motor_status = MOTOR_STATUS_ERROR THEN "error" ELSE c.state

\* The is_closed, is_opening and is_closing properties of the entity
is_closed(c) == c.state = "closed"
is_opening(c) == c.state = "opening"
is_closing(c) == c.state = "closing"

\* The handler of the cover entity that called the controller goes on with
\* what the controller returned, and returns
handler_returns(s, t, ret) ==
    LET l == s.task[t]
        c == s.cover
        c1 == CASE l.call = "update" ->
                      async_update(c, l.pos, l.motor_status)
                [] l.call = "open" -> async_open_cover(c)
                [] l.call = "close" -> async_close_cover(c)
                [] l.call = "stop" -> async_stop_cover(c)
                [] OTHER -> async_set_cover_position(c, l.position)
    IN  Returns([s EXCEPT !.cover = c1,
                          !.task[t].tries = IF l.call = "update" THEN 0 ELSE @,
                          !.task[t].usable = FALSE, !.task[t].pos = None,
                          !.task[t].motor_status = None], t, ret)

\* A cycle that completes its reads and leaves the counter alone: what C14
\* excludes.
poll_keeps_count(s, t) ==
    LET u == s.task[t].usable
        s1 == [s EXCEPT !.data = [kind |-> "dict",
                                  cycle |-> s.history.cycles + 1],
                        !.history = [cycles |-> @.cycles + 1, failed |-> 0,
                                     silent |-> IF u THEN 0 ELSE @.silent + 1,
                                     ended |-> @.failed],
                        !.task[t].tries = 0, !.task[t].usable = FALSE]
    IN  Returns(s1, t, "dict")

\* _async_update_data: read_all_status returned its dict; the counter is
\* reset and the dict returned
poll_succeeds(s, t) ==
    LET u == s.task[t].usable
        s1 == [s EXCEPT !.consecutive_errors = 0,
                        !.data = [kind |-> "dict",
                                  cycle |-> s.history.cycles + 1],
                        !.history = [cycles |-> @.cycles + 1, failed |-> 0,
                                     silent |-> IF u THEN 0 ELSE @.silent + 1,
                                     ended |-> @.failed],
                        !.task[t].tries = 0, !.task[t].usable = FALSE]
    IN  Returns(s1, t, "dict")

\* A read_all_status that returns its dict as it is after a read that gave
\* None: what C30 excludes.
returns_after_failure(s, t, ret, resp) ==
    LET k == s.task[t].readIdx
        v == ReadValue(k, resp)
        u == s.task[t].call = "update"
        f == t \in s.traced
        s1 == [s EXCEPT !.task[t].usable = @ \/ v # None,
                        !.task[t].pos = IF u /\ k = 1 THEN v ELSE @,
                        !.task[t].motor_status = IF u /\ k = 2 THEN v ELSE @,
                        !.task[t].result = IF f THEN [@ EXCEPT ![k] = v] ELSE @,
                        !.task[t].answers =
                            IF f THEN [@ EXCEPT ![k] = resp] ELSE @]
        s2 == [s EXCEPT !.task[t].resp = resp]
    IN  IF s.task[t].op = "read"
        THEN IF k < Len(ReadRegisters) /\ v # None
             THEN StartCommand([s1 EXCEPT !.task[t].readIdx = k + 1], t,
                               ReadCommand(k + 1))
             ELSE IF u THEN handler_returns(s1, t, "None")
                  ELSE poll_succeeds(s1, t)
        ELSE IF s.task[t].call # "none" THEN handler_returns(s2, t, ret)
        ELSE Returns(s2, t, ret)

\* _send_command_with_retry returns; a read of read_all_status puts its
\* value in the dict, read_all_status goes on to its next read and returns
\* the dict after the last one
CommandReturns(s, t, ret, resp) ==
    LET k == s.task[t].readIdx
        v == ReadValue(k, resp)
        u == s.task[t].call = "update"
        f == t \in s.traced
        s1 == [s EXCEPT !.task[t].usable = @ \/ v # None,
                        !.task[t].pos = IF u /\ k = 1 THEN v ELSE @,
                        !.task[t].motor_status = IF u /\ k = 2 THEN v ELSE @,
                        !.task[t].result = IF f THEN [@ EXCEPT ![k] = v] ELSE @,
                        !.task[t].answers =
                            IF f THEN [@ EXCEPT ![k] = resp] ELSE @]
        s2 == [s EXCEPT !.task[t].resp = resp]
    IN  IF s.task[t].op = "read"
        THEN IF k < Len(ReadRegisters)
             THEN StartCommand([s1 EXCEPT !.task[t].readIdx = k + 1], t,
                               ReadCommand(k + 1))
             ELSE IF u THEN handler_returns(s1, t, "None")
                  ELSE poll_succeeds(s1, t)
        ELSE IF s.task[t].call # "none" THEN handler_returns(s2, t, ret)
        ELSE Returns(s2, t, ret)

\* An exchange that ends with the gate still held: what C25 excludes.
hold_gate(s, t) == [s EXCEPT !.wire = <<>>]

\* The gate is released; the exchange, if any, is over.
release(s, t) ==
    IF s.lock = t THEN [s EXCEPT !.lock = NoTask, !.wire = <<>>] ELSE s

\* A retry loop that goes round once more than range(MAX_RETRIES) does:
\* what C3 excludes.
RetryOnceMore(a) == a < MAX_RETRIES

\* Whether _send_command_with_retry makes another attempt after attempt a
MoreAttempts(a) == a < MAX_RETRIES - 1

\* A retry loop that keeps the gate while it sleeps before its next attempt:
\* what C32 excludes.
sleep_with_gate(s, t) ==
    IF MoreAttempts(s.task[t].attempt) THEN Pc(s, t, "retry_sleep")
    ELSE CommandReturns(release(s, t), t, "None", <<>>)

\* send_rs485_command returned None
AttemptEnds(s, t) ==
    LET s0 == IF s.task[t].pc \in {"drain", "read", "cleanup"} THEN s
              ELSE [s EXCEPT !.task[t].torn = FALSE]
        s1 == release(s0, t)
    IN  IF MoreAttempts(s.task[t].attempt)
        THEN Pc(s1, t, "retry_sleep")
        ELSE CommandReturns(s1, t, "None", <<>>)

\* send_rs485_command returned a response
AttemptSucceeds(s, t, r) == CommandReturns(release(s, t), t, "resp", r)

\* A failure that returns None and leaves the connection as it is: what
\* C26 excludes.
fail_without_cleanup(s, t) == AttemptEnds([s EXCEPT !.task[t].torn = TRUE], t)

\* await self._cleanup_connection(); return None
fail_with_cleanup(s, t) ==
    LET s1 == [s EXCEPT !.task[t].torn = TRUE]
    IN  IF s.writer = "none" THEN AttemptEnds(s1, t)
        ELSE close_writer(Pc(s1, t, "cleanup"), t)

\* program_device_address returns b
ProgReturns(s, t, b) ==
    LET s1 == release(s, t)
    IN  Returns(s1, t, b)

\* A failed cycle that returns {} whatever the coordinator holds: what C12
\* excludes.
poll_fails_empty(s, t) ==
    LET n == s.consecutive_errors + 1
        s1 == [s EXCEPT !.consecutive_errors = n,
                        !.history = [@ EXCEPT !.cycles = @ + 1, !.failed = @ + 1,
                                                !.silent = 0]]
    IN  IF n >= max_consecutive_errors
        THEN Returns(s1, t, "UpdateFailed")
        ELSE Returns([s1 EXCEPT !.data = EmptyData], t, "last")

\* _async_update_data: the reconnect failed.  The counter goes up by one;
\* at the ceiling UpdateFailed is raised, below it self.data is returned,
\* or {} when self.data is None or empty.
PollFails(s, t) ==
    LET n == s.consecutive_errors + 1
        s1 == [s EXCEPT !.consecutive_errors = n,
                        !.history = [@ EXCEPT !.cycles = @ + 1, !.failed = @ + 1,
                                                !.silent = 0]]
    IN  IF n >= max_consecutive_errors
        THEN Returns(s1, t, "UpdateFailed")
        ELSE Returns([s1 EXCEPT !.data = IF @.kind = "dict" THEN @
                                         ELSE EmptyData], t, "last")

\* What the caller of ensure_connected() does with its result
connect_returns(s, t, ok) ==
    CASE s.task[t].op \in {"cmd", "read"} ->
            IF ok THEN write_and_drain(s, t) ELSE AttemptEnds(s, t)
      [] s.task[t].op = "prog" ->
            IF ok THEN start_listen(s, t) ELSE ProgReturns(s, t, "False")
      [] OTHER ->
            IF ok THEN StartCommand([s EXCEPT !.task[t].op = "read",
                                              !.task[t].readIdx = 1,
                                              !.task[t].result = NoResult,
                                              !.task[t].answers = NoAnswers],
                                    t, ReadCommand(1))
            ELSE PollFails(s, t)

\* The address validation of program_device_address
ValidAddress(l, h) == ~(l \in {0, 255} \/ h \in {0, 255})

\* An update that stores the low byte only: what C10 excludes.
store_low_byte(s, t) == [s EXCEPT !.device_id_l = s.task[t].new_id_l]

\* self.device_id_l = new_id_l; self.device_id_h = new_id_h
store_address(s, t) ==
    [s EXCEPT !.device_id_l = s.task[t].new_id_l,
              !.device_id_h = s.task[t].new_id_h]

\* program_device_address after the broadcast: build the write-address
\* frame, write it, await drain().  bytes() raises on a value that is no
\* byte and write() on a writer that is None; both end in return False.
send_address(s, t) ==
    LET l == s.task[t].new_id_l
        h == s.task[t].new_id_h
    IN  IF ~(IsByte(l) /\ IsByte(h)) \/ s.writer = "none"
        THEN ProgReturns(s, t, "False")
        ELSE [s EXCEPT !.wire = AddressFrame(l, h),
                       !.task[t].pc = "prog_drain"]

\* The listen loop goes round: its condition, then self._reader.read
listen_again(s, t) ==
    IF s.task[t].listenT >= LISTEN_WINDOW \/ s.reader = "none"
    THEN ProgReturns(s, t, "False")
    ELSE s

\* A listen loop that any non-empty frame ends: what C9 excludes.
listen_any(s, t, r) ==
    IF r # <<>> THEN send_address(s, t) ELSE listen_again(s, t)

\* The listen loop took a response
listen_received(s, t, r) ==
    IF r # <<>> /\ StartsWith(r, ExpectedRequest)
    THEN send_address([s EXCEPT !.task[t].request = r], t)
    ELSE listen_again(s, t)

\* A confirmation step that stores the address before it looks at the
\* confirmation: what C11 excludes.
confirm_stores_first(s, t, r) ==
    LET s1 == store_address([s EXCEPT !.task[t].confirm = r], t)
    IN  ProgReturns(s1, t, IF r # <<>> THEN "True" ELSE "False")

\* The confirmation read returned r
confirm_received(s, t, r) ==
    LET s1 == [s EXCEPT !.task[t].confirm = r]
    IN  IF r # <<>> THEN ProgReturns(store_address(s1, t), t, "True")
        ELSE ProgReturns(s1, t, "False")

\* The response read of a command returned r
response_received(s, t, r) ==
    IF r = <<>> THEN fail_with_cleanup(s, t)
    ELSE IF Validated[r] THEN AttemptSucceeds(s, t, r)
    ELSE AttemptEnds(s, t)

\* open_connection succeeded: reader, writer and _connected are set and
\* connect's finally clears _connecting.
connection_opened(s, t) ==
    [s EXCEPT !.reader = "some", !.writer = "open", !.connected = TRUE,
              !.unanswered = <<>>,
              !.connecting = FALSE, !.inflight = @ - 1, !.live = @ + 1,
              !.staleW = @ \cup Range(s.closeQ), !.closeQ = <<>>]

\* open_connection failed or timed out
connection_failed(s, t) ==
    [s EXCEPT !.connected = FALSE, !.connecting = FALSE, !.inflight = @ - 1]

\* The timeout of send_rs485_command fires while task t is suspended
cancelled(s, t) ==
    CASE s.task[t].pc \in {"conn_cleanup"} ->
            [cleanup_finally(s, t, "cancelled") EXCEPT !.connecting = FALSE]
      [] s.task[t].pc = "cleanup" -> cleanup_finally(s, t, "cancelled")
      [] s.task[t].pc = "conn_open" ->
            [s EXCEPT !.connecting = FALSE, !.inflight = @ - 1]
      [] s.task[t].pc \in {"drain", "read"} /\ "user" \in s.traced ->
            [s EXCEPT !.unanswered = Append(@, s.task[t].cmd)]
      [] OTHER -> s

\* The timeout under which task t is suspended
StageLimit(s, t) ==
    CASE s.task[t].pc \in {"conn_cleanup", "cleanup"} -> CLOSE_GRACE
      [] s.task[t].pc = "conn_wait" -> CONNECT_WAIT
      [] s.task[t].pc \in {"drain", "read"} -> COMMAND_TIMEOUT
      [] OTHER -> CONNECTION_TIMEOUT

\* wait_closed() wakes its waiters in the order they began to wait
MayWake(s, t) == (s.closeQ # <<>> /\ Head(s.closeQ) = t) \/ t \in s.staleW

----------------------------------------------------------------------------
(* Actions: one per suspension point and outcome                           *)

Idle(t) == task[t].pc \in {"idle", "done"}
At(t, p) == task[t].pc = p
Begin(t, o) ==
    [State EXCEPT !.task[t] = [IdleTask EXCEPT !.op = o], !.ops = @ + 1]
MayCall(t) == Idle(t) /\ ops < budget

\* A user command: open() or stop()
StartCmd(t) ==
    /\ t = "user" /\ MayCall(t)
    /\ \E c \in UserCommands : Becomes(StartCommand(Begin(t, "cmd"), t, c))

\* _async_update_data: reconnect when not connected, then read_all_status
StartPoll(t) ==
    /\ t = "poller" /\ MayCall(t)
    /\ Becomes(IF is_connected(State)
               THEN connect_returns(Begin(t, "poll"), t, TRUE)
               ELSE connect(Begin(t, "poll"), t))

\* async_update of the cover entity: its reads, the first one begun
UpdateCover(t) ==
    /\ t \in {"user", "poller"} /\ MayCall(t)
    /\ Becomes(StartCommand([Begin(t, "read") EXCEPT
                                 !.task[t].call = "update",
                                 !.task[t].readIdx = 1], t, ReadCommand(1)))

\* A command handler of the cover entity calls the controller with
\* rs485_command c
CallController(t, call, c) ==
    StartCommand([Begin(t, "cmd") EXCEPT !.task[t].call = call], t, c)

\* async_open_cover
OpenCover(t) ==
    /\ t = "user" /\ MayCall(t)
    /\ Becomes(CallController(t, "open",
                               <<CURTAIN_COMMAND, CURTAIN_COMMAND_OPEN>>))

\* async_close_cover
CloseCover(t) ==
    /\ t = "user" /\ MayCall(t)
    /\ Becomes(CallController(t, "close",
                               <<CURTAIN_COMMAND, CURTAIN_COMMAND_CLOSE>>))

\* async_stop_cover
StopCover(t) ==
    /\ t = "user" /\ MayCall(t)
    /\ Becomes(CallController(t, "stop",
                               <<CURTAIN_COMMAND, CURTAIN_COMMAND_STOP>>))

\* set_cover_position(v) with a v that is no byte: bytes([...]) raises
\* ValueError before anything is awaited, and async_set_cover_position
\* goes to its except branch
position_refused(s, t, v) ==
    Returns([s EXCEPT !.task[t].call = "set", !.task[t].position = v,
                      !.cover = command_failed(@)], t, "ValueError")

\* async_set_cover_position(position=v)
SetCoverPosition(t) ==
    /\ t = "user" /\ MayCall(t)
    /\ \E v \in SetPositions :
          Becomes(IF IsByte(v)
                  THEN [CallController(t, "set",
                            <<CURTAIN_COMMAND, CURTAIN_COMMAND_PERCENT, v>>)
                           EXCEPT !.task[t].position = v]
                  ELSE position_refused(Begin(t, "cmd"), t, v))

\* program_device_address(l, h)
StartProgram(t) ==
    /\ t = "admin" /\ MayCall(t)
    /\ \E a \in AddrInputs :
          LET s == [Begin(t, "prog") EXCEPT !.task[t].new_id_l = a[1],
                                            !.task[t].new_id_h = a[2]]
          IN  Becomes(IF ValidAddress(a[1], a[2]) THEN acquire_or_wait(s, t)
                      ELSE ProgReturns(s, t, "False"))

\* disconnect()
StartDisconnect(t) ==
    /\ t = "admin" /\ MayCall(t)
    /\ LET s == [Begin(t, "disc") EXCEPT !.disconnects = TRUE]
       IN  Becomes(IF s.writer = "none"
                   THEN Returns(s, t, "None")
                   ELSE close_writer([s EXCEPT !.task[t].pc = "disc_cleanup",
                                               !.task[t].io = TRUE], t))

\* The gate is released to a waiter
GateAcquire(t) ==
    /\ At(t, "gate") /\ lock = NoTask
    /\ \E d \in {0, MidDuration} :
          /\ MayComplete(State, t, d, CONNECTION_TIMEOUT)
          /\ Becomes(locked_body([Spend(State, t, d) EXCEPT !.lock = t], t))

\* The timeout of send_rs485_command fires while waiting for the gate
GateTimeout(t) ==
    /\ At(t, "gate") /\ lock # NoTask /\ InScope(State, t)
    /\ Becomes(AttemptEnds(SpendToDeadline(State, t), t))

\* program_device_address waits for the gate without a timeout: it is
\* still waiting when CONNECTION_TIMEOUT seconds have passed.
GateOverdue(t) ==
    /\ At(t, "gate") /\ lock # NoTask /\ ~InScope(State, t)
    /\ ~task[t].overdue
    /\ Becomes([State EXCEPT !.task[t].overdue = TRUE])

\* connect(): the wait for the connection attempt of another task ends
ConnWaitDone(t) ==
    /\ At(t, "conn_wait") /\ ~connecting
    /\ \E d \in {0, MidDuration} :
          /\ MayComplete(State, t, d, CONNECT_WAIT)
          /\ LET s == Spend(State, t, d)
             IN  Becomes(connect_returns(s, t, is_connected(s)))

\* connect(): 50 sleeps have passed and the other attempt is still going
ConnWaitGiveUp(t) ==
    /\ At(t, "conn_wait") /\ connecting
    /\ MayTimeOut(State, t, CONNECT_WAIT)
    /\ Becomes(connect_returns(Spend(State, t, CONNECT_WAIT), t, FALSE))

\* connect(): _cleanup_connection is over, open_connection begins
ConnCleanupDone(t) ==
    /\ At(t, "conn_cleanup") /\ MayWake(State, t)
    /\ \E outcome \in {"closed", "timeout", "error"} :
          /\ outcome = "timeout" => MayTimeOut(State, t, CLOSE_GRACE)
          /\ LET s == Spend(State, t, IF outcome = "timeout" THEN CLOSE_GRACE ELSE 0)
                 s1 == cleanup_finally(s, t, outcome)
             IN  Becomes([s1 EXCEPT !.inflight = @ + 1,
                                    !.task[t].pc = "conn_open"])

\* connect(): open_connection returns a connection
ConnOpenOk(t) ==
    /\ At(t, "conn_open")
    /\ \E d \in {0, MidDuration} :
          /\ MayComplete(State, t, d, CONNECTION_TIMEOUT)
          /\ LET s == connection_opened(Spend(State, t, d), t)
             IN  Becomes(connect_returns(s, t, TRUE))

\* connect(): open_connection raises OSError, or times out
ConnOpenFail(t) ==
    /\ At(t, "conn_open")
    /\ \E d \in {0, MidDuration, CONNECTION_TIMEOUT} :
          /\ IF d = CONNECTION_TIMEOUT
             THEN MayTimeOut(State, t, CONNECTION_TIMEOUT)
             ELSE MayComplete(State, t, d, CONNECTION_TIMEOUT)
          /\ d = CONNECTION_TIMEOUT => t \in timed
          /\ LET s == connection_failed(Spend(State, t, d), t)
             IN  Becomes(connect_returns(s, t, FALSE))

\* drain() returns; the response read begins, on self._reader
DrainOk(t) ==
    /\ At(t, "drain")
    /\ \E d \in {0, MidDuration} :
          /\ MayComplete(State, t, d, COMMAND_TIMEOUT)
          /\ LET s == Spend(State, t, d)
             IN  Becomes(IF s.reader = "none" THEN fail_with_cleanup(s, t)
                         ELSE Pc(s, t, "read"))

\* drain() raises a connection error, or times out
DrainFails(t) ==
    /\ At(t, "drain")
    /\ \E timeout \in BOOLEAN :
          /\ timeout => MayTimeOut(State, t, COMMAND_TIMEOUT)
          /\ Becomes(fail_with_cleanup(
                 Spend(State, t, IF timeout THEN COMMAND_TIMEOUT ELSE 0), t))

\* The response read returns r
ReadResponse(t) ==
    /\ At(t, "read")
    /\ \E r \in Responses, d \in {0, MidDuration} :
          /\ MayComplete(State, t, d, COMMAND_TIMEOUT)
          /\ Becomes(response_received(Spend(State, t, d), t, r))

\* The response read times out
ReadTimeout(t) ==
    /\ At(t, "read")
    /\ MayTimeOut(State, t, COMMAND_TIMEOUT)
    /\ Becomes(fail_with_cleanup(Spend(State, t, COMMAND_TIMEOUT), t))

\* The response read raises a connection error
ReadError(t) ==
    /\ At(t, "read")
    /\ Becomes(fail_with_cleanup(State, t))

\* _cleanup_connection after a failed exchange is over
CleanupDone(t) ==
    /\ At(t, "cleanup") /\ MayWake(State, t)
    /\ \E outcome \in {"closed", "timeout", "error"} :
          /\ outcome = "timeout" => MayTimeOut(State, t, CLOSE_GRACE)
          /\ LET s == Spend(State, t, IF outcome = "timeout" THEN CLOSE_GRACE ELSE 0)
             IN  Becomes(AttemptEnds(cleanup_finally(s, t, outcome), t))

\* The timeout of send_rs485_command fires with the gate held
ScopeCancel(t) ==
    /\ task[t].pc \in {"conn_wait", "conn_cleanup", "conn_open",
                       "drain", "read", "cleanup"}
    /\ task[t].pc \in {"drain", "read"} => Len(unanswered) < MaxUnanswered
    /\ MayCancel(State, t, StageLimit(State, t))
    /\ Becomes(AttemptEnds(cancelled(SpendToDeadline(State, t), t), t))

\* asyncio.sleep(RECONNECT_DELAY) is over: the next attempt
RetrySleepDone(t) ==
    /\ At(t, "retry_sleep")
    /\ LET s == IF t \in timed
                THEN [State EXCEPT !.task[t].blocked = @ + RECONNECT_DELAY]
                ELSE State
       IN  Becomes(send_rs485_command([s EXCEPT !.task[t].attempt = @ + 1], t))

\* The listen loop's read returns r
ListenReceive(t) ==
    /\ At(t, "listen")
    /\ \E r \in Responses : Becomes(listen_received(State, t, r))

\* The listen loop's read times out after LISTEN_READ_TIMEOUT
ListenTimeout(t) ==
    /\ At(t, "listen")
    /\ Becomes(listen_again(
           [State EXCEPT !.task[t].listenT = @ + LISTEN_READ_TIMEOUT], t))

\* The listen loop's read raises a connection error
ListenFails(t) ==
    /\ At(t, "listen")
    /\ Becomes(ProgReturns(State, t, "False"))

\* drain() of the write-address frame returns; the confirmation read begins
ProgDrainOk(t) ==
    /\ At(t, "prog_drain")
    /\ Becomes(IF reader = "none" THEN ProgReturns(State, t, "False")
               ELSE Pc(State, t, "confirm"))

\* drain() of the write-address frame raises or times out
ProgDrainFails(t) ==
    /\ At(t, "prog_drain")
    /\ Becomes(ProgReturns(State, t, "False"))

\* The response read returns the device's response to what was sent
ReadReply(t) ==
    /\ At(t, "read")
    /\ \E r \in IF task[t].op = "read" THEN Replies[task[t].readIdx]
                 ELSE CommandReplies :
          Becomes(response_received(State, t, r))

\* The response read returns what the device sent first: its response to
\* the oldest frame that has had none read, which is the frame of this
\* exchange when every exchange before it on the connection read its own.
ReadAnswer(t) ==
    /\ At(t, "read")
    /\ \E d \in {0, MidDuration} :
          /\ MayComplete(State, t, d, COMMAND_TIMEOUT)
          /\ LET q == unanswered
                 c == IF q = <<>> THEN task[t].cmd ELSE Head(q)
                 s == [Spend(State, t, d) EXCEPT
                          !.unanswered = IF q = <<>> THEN <<>>
                                         ELSE Append(Tail(q), task[t].cmd)]
             IN  \E r \in RepliesTo(c) :
                    Becomes(response_received(s, t, r))

\* The confirmation read returns r
ConfirmReceive(t) ==
    /\ At(t, "confirm")
    /\ \E r \in Responses : Becomes(confirm_received(State, t, r))

\* The confirmation read times out or raises
ConfirmFails(t) ==
    /\ At(t, "confirm")
    /\ Becomes(ProgReturns(State, t, "False"))

\* disconnect(): _cleanup_connection is over
DisconnectDone(t) ==
    /\ At(t, "disc_cleanup") /\ MayWake(State, t)
    /\ \E outcome \in {"closed", "timeout", "error"} :
          LET s == cleanup_finally(State, t, outcome)
          IN  Becomes(Returns(s, t, "None"))

\* The peer closes the connection, or the link is lost
PeerCloses ==
    /\ writer = "open"
    /\ Becomes([State EXCEPT !.writer = "closing", !.live = @ - 1])

\* The codec applied alone, once in a run: task t has the result of the
\* application
Applied(t, l) == [State EXCEPT !.task[t] = l, !.ops = @ + 1]

\* read_cover_position, _send_command_with_retry having returned r
ReadPosition(t) ==
    /\ t = "user" /\ task[t].pc = "idle"
    /\ \E r \in PositionResponses :
          Becomes(Applied(t, [IdleTask EXCEPT !.pc = "done", !.op = "position",
                                               !.raw = r,
                                               !.pos = read_cover_position(r)]))

\* A frame is built of d and its CRC, and given to the validation of
\* responses
RoundTrip(t) ==
    /\ t = "user" /\ task[t].pc = "idle"
    /\ \E d \in CrcInputs :
          LET f == WithCrc(d)
              ok == ValidateResponse(f)
          IN  Becomes(Applied(t, [IdleTask EXCEPT
                                     !.pc = "done", !.op = "roundtrip",
                                     !.cmd = d, !.raw = f,
                                     !.ret = IF ok THEN "resp" ELSE "None",
                                     !.resp = IF ok THEN f ELSE <<>>]))

\* The validation of responses, the response read having returned r
Validate(t) ==
    /\ t = "user" /\ task[t].pc = "idle"
    /\ \E r \in StatusResponses \cup SealedResponses \cup TamperedResponses :
          LET ok == ValidateResponse(r)
          IN  Becomes(Applied(t, [IdleTask EXCEPT
                                     !.pc = "done", !.op = "validate",
                                     !.raw = r,
                                     !.ret = IF ok THEN "resp" ELSE "None",
                                     !.resp = IF ok THEN r ELSE <<>>]))

Next ==
    \/ \E t \in Tasks :
          \/ StartCmd(t) \/ StartPoll(t) \/ StartProgram(t) \/ StartDisconnect(t)
          \/ GateAcquire(t) \/ GateTimeout(t) \/ GateOverdue(t)
          \/ ConnWaitDone(t) \/ ConnWaitGiveUp(t)
          \/ ConnCleanupDone(t) \/ ConnOpenOk(t) \/ ConnOpenFail(t)
          \/ DrainOk(t) \/ DrainFails(t)
          \/ ReadResponse(t) \/ ReadTimeout(t) \/ ReadError(t)
          \/ CleanupDone(t) \/ ScopeCancel(t) \/ RetrySleepDone(t)
          \/ ListenReceive(t) \/ ListenTimeout(t) \/ ListenFails(t)
          \/ ProgDrainOk(t) \/ ProgDrainFails(t)
          \/ ConfirmReceive(t) \/ ConfirmFails(t)
          \/ DisconnectDone(t)
    \/ PeerCloses

Spec == Init /\ [][Next]_vars

\* The steps by which an operation task t has called goes on: the event
\* loop resumes a task whose await is over, and every await of the
\* controller but the one for the gate in program_device_address is under a
\* timeout that fires.
Resume(t) ==
    \/ GateAcquire(t) \/ GateTimeout(t) \/ GateOverdue(t)
    \/ ConnWaitDone(t) \/ ConnWaitGiveUp(t)
    \/ ConnCleanupDone(t) \/ ConnOpenOk(t) \/ ConnOpenFail(t)
    \/ DrainOk(t) \/ DrainFails(t)
    \/ ReadResponse(t) \/ ReadTimeout(t) \/ ReadError(t)
    \/ CleanupDone(t) \/ ScopeCancel(t) \/ RetrySleepDone(t)
    \/ ListenReceive(t) \/ ListenTimeout(t) \/ ListenFails(t)
    \/ ProgDrainOk(t) \/ ProgDrainFails(t)
    \/ ConfirmReceive(t) \/ ConfirmFails(t)
    \/ DisconnectDone(t)

\* The coordinator's poll cycles (a reconnect outside the gate, then the five
\* reads with their retries) and the administrative caller's operations,
\* with an event loop that leaves no task that can go on suspended for ever
NextLive ==
    \/ \E t \in {"poller", "admin"} :
          \/ StartPoll(t) \/ StartProgram(t) \/ StartDisconnect(t)
          \/ Resume(t)
    \/ PeerCloses

SpecLive ==
    /\ Init /\ [][NextLive]_vars
    /\ \A t \in {"poller", "admin"} : WF_vars(Resume(t))

\* An operation called before disconnect() is
CallBefore(t) ==
    /\ ~disconnects
    /\ (StartCmd(t) \/ StartPoll(t) \/ StartProgram(t))

\* The controller shut down: disconnect() is the last call made, and the
\* operations called before it go on.
NextDisconnect ==
    \/ \E t \in Tasks : CallBefore(t) \/ StartDisconnect(t) \/ Resume(t)
    \/ PeerCloses

SpecDisconnect == Init /\ [][NextDisconnect]_vars

\* The user's command, timed, with the poller
NextTimed ==
    \/ \E t \in {"user", "poller"} :
          \/ StartCmd(t) \/ StartPoll(t)
          \/ GateAcquire(t) \/ GateTimeout(t)
          \/ ConnWaitDone(t) \/ ConnWaitGiveUp(t)
          \/ ConnCleanupDone(t) \/ ConnOpenOk(t) \/ ConnOpenFail(t)
          \/ DrainOk(t) \/ DrainFails(t)
          \/ ReadResponse(t) \/ ReadTimeout(t) \/ ReadError(t)
          \/ CleanupDone(t) \/ ScopeCancel(t) \/ RetrySleepDone(t)
    \/ PeerCloses

SpecTimed == InitTimed /\ [][NextTimed]_vars

\* The timeout of send_rs485_command fires with the gate held, the
\* CONNECTION_TIMEOUT seconds of the attempt accounted for step by step
ScopeDeadline(t) == t \in timed /\ ScopeCancel(t)

\* The user's command with the poll cycle, timed, and a device that answers
\* every frame it is sent, in order, sooner or later
NextLate ==
    \E t \in {"user", "poller"} :
       \/ StartCmd(t) \/ StartPoll(t)
       \/ GateAcquire(t) \/ GateTimeout(t)
       \/ ConnWaitDone(t) \/ ConnWaitGiveUp(t)
       \/ ConnOpenOk(t) \/ ConnOpenFail(t)
       \/ DrainOk(t)
       \/ ReadAnswer(t) \/ ReadTimeout(t)
       \/ CleanupDone(t) \/ ScopeDeadline(t) \/ RetrySleepDone(t)

SpecLate == InitLate /\ [][NextLate]_vars

\* The coordinator's poll cycles alone
NextPoll ==
    \/ \E t \in {"poller"} :
          \/ StartPoll(t)
          \/ ConnCleanupDone(t) \/ ConnOpenOk(t) \/ ConnOpenFail(t)
          \/ DrainOk(t) \/ DrainFails(t)
          \/ ReadResponse(t) \/ ReadTimeout(t) \/ ReadError(t)
          \/ CleanupDone(t) \/ ScopeCancel(t) \/ RetrySleepDone(t)
    \/ PeerCloses

SpecPoll == InitPoll /\ [][NextPoll]_vars

\* The cover entity's handlers alone, with a device that answers what it
\* is asked or does not answer, and connections that open or are refused
NextCover ==
    \E t \in {"user"} :
       \/ UpdateCover(t) \/ OpenCover(t) \/ CloseCover(t) \/ StopCover(t)
       \/ SetCoverPosition(t)
       \/ ConnOpenOk(t) \/ ConnOpenFail(t)
       \/ DrainOk(t) \/ ReadReply(t) \/ ReadTimeout(t)
       \/ CleanupDone(t) \/ RetrySleepDone(t)

SpecCover == InitCover /\ [][NextCover]_vars

\* A command handler of the cover entity called while an async_update of
\* the entity has read the position and goes on with its other reads
CommandDuringUpdate(t) ==
    /\ \E u \in Tasks \ {t} :
          /\ task[u].call = "update" /\ task[u].pc # "done"
          /\ task[u].readIdx > 1
    /\ (OpenCover(t) \/ CloseCover(t) \/ SetCoverPosition(t))

\* An async_update of the cover entity run by the polling task, and the
\* user's command handlers called in the middle of it
NextRace ==
    \/ UpdateCover("poller")
    \/ CommandDuringUpdate("user")
    \/ \E t \in {"user", "poller"} :
          \/ GateAcquire(t) \/ GateTimeout(t)
          \/ ConnOpenOk(t) \/ ConnOpenFail(t)
          \/ DrainOk(t) \/ ReadReply(t) \/ ReadTimeout(t)
          \/ CleanupDone(t) \/ RetrySleepDone(t)

SpecRace == Init /\ [][NextRace]_vars

\* The coordinator's poll cycles alone, with a device that answers what it
\* is asked or does not answer, and connections that open or are refused
NextStatus ==
    \E t \in {"poller"} :
       \/ StartPoll(t)
       \/ ConnOpenOk(t) \/ ConnOpenFail(t)
       \/ DrainOk(t) \/ ReadReply(t) \/ ReadTimeout(t)
       \/ CleanupDone(t) \/ RetrySleepDone(t)

SpecStatus == InitStatus /\ [][NextStatus]_vars

\* The frame codec alone
NextCodec ==
    \E t \in {"user"} : ReadPosition(t) \/ RoundTrip(t) \/ Validate(t)

SpecCodec == Init /\ [][NextCodec]_vars

----------------------------------------------------------------------------
(* The claims                                                              *)

\* Task t is in an exchange: between the write of its frame and the end of
\* its response read, or in the listen/write/confirm sequence.
InExchange(t) ==
    task[t].pc \in {"drain", "read", "listen", "prog_drain", "confirm"}

\* C1: at most one exchange is in progress on the connection at any time,
\* and the task in it holds the gate; nobody else writes or reads meanwhile.
C1_OneExchange ==
    \A t, u \in Tasks :
        InExchange(t) /\ InExchange(u) => t = u /\ lock = t

\* An exchange is in progress while another caller wants the connection.
C1_Witness ==
    \E t, u \in Tasks :
        /\ t # u
        /\ task[t].pc = "read"
        /\ task[u].pc = "gate"

\* C2: no caller is still waiting for the gate when the acquisition timeout
\* has passed: it has got a failure result instead.
C2_GateWaitTimesOut ==
    \A t \in Tasks : ~(task[t].pc = "gate" /\ task[t].overdue)

\* C3: a command never makes more than MAX_RETRIES attempts; one that
\* returns None has made exactly MAX_RETRIES, and one that returns a
\* response has made at least one (the one that succeeded was its last).
C3_ExactlyMaxRetries ==
    \A t \in Tasks :
        /\ task[t].tries <= MAX_RETRIES
        /\ task[t].tries = task[t].attempt + 1
               \/ task[t].pc \in {"idle", "done"}
               \/ task[t].op \notin {"cmd", "read"}
        /\ (task[t].op = "cmd" /\ task[t].pc = "done") =>
               /\ task[t].ret = "None" => task[t].tries = MAX_RETRIES
               /\ task[t].ret = "resp" => task[t].tries \in 1..MAX_RETRIES

\* A command has failed after its third attempt.
C3_Witness ==
    /\ task["user"].op = "cmd" /\ task["user"].pc = "done"
    /\ task["user"].ret = "None"
    /\ task["user"].tries = MAX_RETRIES

\* C4, as stated: a command never blocks longer than
\* MAX_RETRIES * (COMMAND_TIMEOUT + RECONNECT_DELAY) seconds in total.
C4_BlockedAsStated ==
    \A t \in timed :
        task[t].blocked <= MAX_RETRIES * (COMMAND_TIMEOUT + RECONNECT_DELAY)

\* C4, amended: every attempt of a command ends within CONNECTION_TIMEOUT,
\* the asyncio.timeout of send_rs485_command, and the command never blocks
\* longer than MAX_RETRIES * CONNECTION_TIMEOUT + (MAX_RETRIES - 1) *
\* RECONNECT_DELAY seconds in total, gate waiting, connecting, drain and
\* response read of every attempt included.
C4_Blocked ==
    \A t \in timed :
        /\ task[t].elapsed <= CONNECTION_TIMEOUT
        /\ task[t].blocked <= MAX_RETRIES * CONNECTION_TIMEOUT
                                + (MAX_RETRIES - 1) * RECONNECT_DELAY

\* A command has failed after blocking for the whole of that time.
C4_Witness ==
    /\ task["user"].op = "cmd" /\ task["user"].pc = "done"
    /\ task["user"].ret = "None"
    /\ task["user"].blocked = MAX_RETRIES * CONNECTION_TIMEOUT
                                + (MAX_RETRIES - 1) * RECONNECT_DELAY

\* A response is well formed: two bytes, or four and more with the CRC of
\* the bytes before as its last two.
WellFormed ==
    [r \in Responses |->
        \/ Len(r) = 2
        \/ Len(r) >= 4 /\ LastTwo(r) = calculate_crc(ButLastTwo(r))]

\* C5: a response handed to the caller as success is well formed; one of
\* length 1 or 3, or with a CRC mismatch, is never handed to the caller.
C5_OnlyWellFormedReturned ==
    \A t \in Tasks : task[t].ret = "resp" => WellFormed[task[t].resp]

\* C6: at most one open_connection is in flight at any time, and at most
\* one socket exists: in flight, or established and not closed.
C6_OneConnection ==
    /\ inflight <= 1
    /\ inflight + live <= 1

\* A caller waits for the connection attempt of another, which is in flight.
C6_Witness ==
    \E t, u \in Tasks :
        /\ task[t].pc = "conn_wait"
        /\ task[u].pc = "conn_open"
        /\ inflight = 1

\* disconnect() of task t returns in this step.
DisconnectReturns(t) ==
    /\ task'[t].op = "disc" /\ task'[t].pc = "done"
    /\ task[t] # task'[t]

\* C7: when disconnect() returns there is no reader, no writer and
\* connected is false, however the close ended; on a controller that is
\* disconnected already it changes nothing.
C7_DisconnectClears ==
    [][\A t \in Tasks :
          DisconnectReturns(t) =>
              /\ reader' = "none" /\ writer' = "none" /\ ~connected'
              /\ (reader = "none" /\ writer = "none" /\ ~connected) =>
                     UNCHANGED <<device_id_l, device_id_h, reader, writer,
                                 connected, connecting, lock, inflight, live,
                                 wire>>]_vars

\* disconnect() has closed a connection and has returned.
C7_Witness ==
    /\ task["admin"].op = "disc" /\ task["admin"].pc = "done"
    /\ task["admin"].io
    /\ reader = "none" /\ writer = "none" /\ ~connected

\* C8: program_device_address with a value outside 1..254 is rejected at
\* once: it has returned False and has not used the connection.
C8_RejectedAtOnce ==
    \A t \in Tasks :
        (/\ task[t].op = "prog"
         /\ ~(task[t].new_id_l \in 1..254 /\ task[t].new_id_h \in 1..254))
            => /\ task[t].pc = "done"
               /\ task[t].ret = "False"
               /\ ~task[t].io

\* A frame is a write-address frame.
IsWriteAddress(f) ==
    /\ Len(f) >= 4
    /\ f[2] = 0 /\ f[3] = 0
    /\ f[4] = DEVICE_ADDRESS_WRITE

\* C9: the write-address frame is written only after a frame matching the
\* expected broadcast has been received, and program_device_address
\* returns False when none has been.
C9_WriteOnlyAfterBroadcast ==
    /\ IsWriteAddress(wire) =>
           /\ lock \in Tasks
           /\ StartsWith(task[lock].request, ExpectedRequest)
    /\ \A t \in Tasks :
           /\ task[t].pc \in {"prog_drain", "confirm"} =>
                  IsWriteAddress(wire) /\ lock = t
           /\ (task[t].op = "prog" /\ task[t].pc = "done"
                   /\ ~StartsWith(task[t].request, ExpectedRequest)) =>
                  task[t].ret = "False"

\* The listen window has ended without the broadcast.
C9_Witness ==
    /\ task["admin"].op = "prog" /\ task["admin"].pc = "done"
    /\ task["admin"].listenT = LISTEN_WINDOW
    /\ task["admin"].request = <<>>
    /\ task["admin"].ret = "False"

\* C10: after the broadcast, any non-empty confirmation makes
\* program_device_address return True with the stored address equal to
\* (new_id_l, new_id_h); the stored address is always a whole address, the
\* initial one or one that was programmed, and so is the address of every
\* ordinary command frame.
C10_AddressStoredWhole ==
    /\ \A t \in Tasks :
           (task[t].op = "prog" /\ task[t].pc = "done"
                /\ task[t].confirm # <<>>) =>
               /\ task[t].ret = "True"
               /\ device_id_l = task[t].new_id_l
               /\ device_id_h = task[t].new_id_h
    /\ <<device_id_l, device_id_h>> \in Addresses
    /\ (wire # <<>> /\ ~IsWriteAddress(wire)) =>
           <<wire[2], wire[3]>> \in Addresses

\* The address has been programmed and a command frame carries it.
C10_Witness ==
    /\ task["admin"].op = "prog" /\ task["admin"].pc = "done"
    /\ task["admin"].ret = "True"
    /\ task["admin"].confirm # <<>>
    /\ wire # <<>> /\ ~IsWriteAddress(wire)
    /\ wire[2] = task["admin"].new_id_l
    /\ wire[3] = task["admin"].new_id_h

\* C11: the stored address changes only in the step in which
\* program_device_address returns True, after its confirmation read; every
\* other step, the returns of False among them, leaves device_id_l and
\* device_id_h as they were.
C11_AddressKeptOnFalse ==
    [][ /\ <<device_id_l', device_id_h'>> # <<device_id_l, device_id_h>> =>
              \E t \in Tasks :
                 /\ task[t].pc = "confirm" /\ task'[t].pc = "done"
                 /\ task'[t].op = "prog" /\ task'[t].ret = "True"
        /\ \A t \in Tasks :
              ( /\ task'[t].op = "prog" /\ task'[t].pc = "done"
                /\ task'[t].ret = "False" /\ task' # task ) =>
              <<device_id_l', device_id_h'>> = <<device_id_l, device_id_h>>
      ]_vars

\* program_device_address has returned False after it wrote the
\* write-address frame and read an empty confirmation; the address is the
\* one the controller was constructed with.
C11_Witness ==
    \E t \in Tasks :
       /\ task[t].op = "prog" /\ task[t].pc = "done" /\ task[t].ret = "False"
       /\ task[t].request # <<>> /\ task[t].confirm = <<>>
       /\ <<task[t].new_id_l, task[t].new_id_h>> # InitAddr
       /\ <<device_id_l, device_id_h>> = InitAddr

\* Task t ends a poll cycle in this step without having begun
\* read_all_status: the controller was not connected and the reconnect
\* failed.
ReconnectFailed(t) ==
    /\ task[t].op = "poll" /\ task[t].pc # "done"
    /\ task'[t].op = "poll" /\ task'[t].pc = "done"

\* C12: a poll cycle whose reconnect fails adds one to the consecutive-error
\* counter and issues no read; while the counter is then below 5 it returns
\* what the coordinator holds, unchanged, or the empty result when it holds
\* nothing, and raises nothing; at 5 or more it raises UpdateFailed.
C12_ReconnectFailure ==
    [][ \A t \in Tasks : ReconnectFailed(t) =>
          /\ consecutive_errors' = consecutive_errors + 1
          /\ task'[t].tries = 0 /\ wire' = wire
          /\ IF consecutive_errors' < 5
             THEN /\ task'[t].ret = "last"
                  /\ coordinator_data' =
                        IF coordinator_data.kind = "dict"
                        THEN coordinator_data ELSE EmptyData
             ELSE /\ task'[t].ret = "UpdateFailed"
                  /\ coordinator_data' = coordinator_data
      ]_vars

\* A cycle has raised UpdateFailed with the counter at 5, the coordinator
\* still holding the dict of an earlier cycle.
C12_Witness ==
    /\ task["poller"].op = "poll" /\ task["poller"].pc = "done"
    /\ task["poller"].ret = "UpdateFailed"
    /\ consecutive_errors = 5
    /\ coordinator_data.kind = "dict"

\* C13: when the latest five poll cycles in a row all had every one of
\* their reads return None, the fifth raised UpdateFailed.
C13_SilentCyclesRaise ==
    (history.silent >= 5 /\ task["poller"].pc = "done") =>
        task["poller"].ret = "UpdateFailed"

\* C14: every cycle that completes its reads leaves the counter at zero;
\* the counter is the number of failed cycles since the latest completed
\* one; UpdateFailed is raised only by a failed cycle that at least four
\* failed cycles precede with no completed cycle between.
C14_CounterAndCeiling ==
    /\ consecutive_errors = history.failed
    /\ \A t \in Tasks :
          task[t].pc = "done" =>
             /\ task[t].ret = "dict" => consecutive_errors = 0
             /\ task[t].ret = "UpdateFailed" => history.failed >= 5
             /\ task[t].ret = "last" => history.failed \in 1..4

\* Four failed cycles, a completed one, a failed one: the sixth cycle has
\* returned the fifth's dict and raised nothing.
C14_Witness ==
    /\ ops = 6 /\ history.ended = 4 /\ history.failed = 1
    /\ task["poller"].pc = "done" /\ task["poller"].ret = "last"
    /\ coordinator_data.kind = "dict" /\ coordinator_data.cycle = 5

\* Task t's async_update returns in this step: its reads are over, the
\* readings are in its locals, and the entity's fields are set from them.
UpdateReturns(t) ==
    /\ task[t].call = "update" /\ task[t].pc # "done"
    /\ task'[t].call = "update" /\ task'[t].pc = "done"

\* A command handler of the cover entity returns in this step.
HandlerReturns(t, call) ==
    /\ task[t].call = call /\ task[t].pc # "done"
    /\ task'[t].call = call /\ task'[t].pc = "done"

\* C15: an update whose motor status reading is Error (0x02) leaves the
\* entity in state Error, with no target position and no reported position,
\* whatever the position reading and the fields before.
C15_MotorErrorForcesError ==
    [][ \A t \in Tasks :
          (UpdateReturns(t) /\ task[t].motor_status = 2) =>
             /\ cover'.state = "error" /\ state(cover') = "error"
             /\ cover'.target_position = None
             /\ cover'.current_position = None
      ]_vars

\* An update has ended in Error after an earlier update had reported a
\* position.
C15_Witness ==
    /\ task["user"].call = "update" /\ task["user"].pc = "done"
    /\ cover.state = "error" /\ cover.motor_status = 2
    /\ cover.last_position # None
    /\ cover.target_position = None /\ cover.current_position = None

\* C16: an update with no motor error whose position reading is None leaves
\* the entity in state Unknown with its target position as it was.
C16_UnknownKeepsTarget ==
    [][ \A t \in Tasks :
          (UpdateReturns(t) /\ task[t].motor_status # 2
              /\ task[t].pos = None) =>
             /\ cover'.state = "unknown"
             /\ cover'.target_position = cover.target_position
      ]_vars

\* C17: an update with no motor error whose position reading is 0 leaves
\* the entity Closed, one whose reading is 100 leaves it Open, both with no
\* target position, whatever the target and the last position were; one
\* whose reading is None leaves it Unknown.
C17_EndPositions ==
    [][ \A t \in Tasks :
          (UpdateReturns(t) /\ task[t].motor_status # 2) =>
             /\ task[t].pos = 0 =>
                   /\ cover'.state = "closed" /\ state(cover') = "closed"
                   /\ cover'.target_position = None
             /\ task[t].pos = 100 =>
                   /\ cover'.state = "open" /\ state(cover') = "open"
                   /\ cover'.target_position = None
             /\ task[t].pos = None => cover'.state = "unknown"
      ]_vars

\* The second handler called was an update that read position 0: the
\* entity is Closed with no target.
C17_Witness ==
    /\ ops = 2
    /\ task["user"].call = "update" /\ task["user"].pc = "done"
    /\ cover.state = "closed" /\ cover.current_position = 0
    /\ cover.last_position = 0 /\ cover.target_position = None

\* C18: an update with no motor error that reads an intermediate position p
\* while a target t is pending: within 5 points of t the entity settles, Open
\* when p > 50 and Closed otherwise, and the target is cleared; further away
\* it is Opening when p < t and Closing when p > t, and the target stays.
C18_IntermediateWithTarget ==
    [][ \A t \in Tasks :
          LET p == task[t].pos
              tgt == cover.target_position
          IN  ( /\ UpdateReturns(t) /\ task[t].motor_status # 2
                /\ p \in 1..99 /\ tgt # None ) =>
                 IF Abs(p - tgt) <= 5
                 THEN /\ cover'.state = IF p > 50 THEN "open" ELSE "closed"
                      /\ cover'.target_position = None
                 ELSE /\ p < tgt => cover'.state = "opening"
                      /\ p > tgt => cover'.state = "closing"
                      /\ cover'.target_position = tgt
      ]_vars

\* An update has read 97 with the target 100 pending: the entity is Open
\* with no target, the motor status read being no error.
C18_Witness ==
    /\ task["user"].call = "update" /\ task["user"].pc = "done"
    /\ cover.state = "open" /\ cover.current_position = 97
    /\ cover.target_position = None /\ cover.motor_status = 0
    /\ cover.last_position = 97 /\ ops = 2

\* C19: when async_open_cover, async_close_cover or
\* async_set_cover_position(v) returns, the target position is 100, 0 or v,
\* whatever the entity's fields were.
C19_CommandSetsTarget ==
    [][ \A t \in Tasks :
          /\ HandlerReturns(t, "open") => cover'.target_position = 100
          /\ HandlerReturns(t, "close") => cover'.target_position = 0
          /\ HandlerReturns(t, "set") =>
                cover'.target_position = task[t].position
      ]_vars

\* C20: when the controller has returned None to a command of the entity,
\* its MAX_RETRIES attempts made, the entity is neither Opening nor Closing
\* and has no target position.
C20_FailedCommandUnknown ==
    \A t \in Tasks :
       ( /\ task[t].call \in {"open", "close", "set"}
         /\ task[t].pc = "done" /\ task[t].ret = "None"
         /\ task[t].tries = 3 ) =>
          /\ cover.state \notin {"opening", "closing"}
          /\ cover.target_position = None

\* C21: read_cover_position yields the position byte (response[5]) itself
\* when it is 0..100 and None for every byte 101..255, never 100 for a byte
\* above 100; it yields None for a failed command, a status-only response
\* and a response shorter than 6 bytes.
C21_PositionByte ==
    \A t \in Tasks :
       task[t].op = "position" =>
          LET r == task[t].raw
          IN  /\ Len(r) < 6 => task[t].pos = None
              /\ Len(r) >= 6 =>
                    /\ r[6] \in 0..100 => task[t].pos = r[6]
                    /\ r[6] \in 101..255 => task[t].pos = None

\* A data response with the position byte 254 has been read as None.
C21_Witness ==
    /\ task["user"].op = "position" /\ Len(task["user"].raw) = 8
    /\ task["user"].raw[6] = 254 /\ task["user"].pos = None

\* C22: a byte sequence d followed by calculate_crc(d) is accepted by the
\* validation of responses, and without its last two bytes it is d again;
\* so is every frame the controller builds.
C22_CrcRoundTrip ==
    \A t \in Tasks :
       task[t].op = "roundtrip" =>
          /\ task[t].ret = "resp"
          /\ ButLastTwo(task[t].resp) = task[t].cmd
          /\ LastTwo(task[t].resp) = calculate_crc(task[t].cmd)

\* The frame of the stop command at the factory address has passed the
\* validation.
C22_Witness ==
    /\ task["user"].op = "roundtrip" /\ task["user"].ret = "resp"
    /\ task["user"].cmd = <<START_CODE, 254, 254, CURTAIN_COMMAND,
                            CURTAIN_COMMAND_STOP>>
    /\ Len(task["user"].resp) = 7

\* C23: a response of two bytes is accepted whatever its bytes; a response
\* of four bytes or more whose last byte differs from the second byte of the
\* CRC of what precedes the CRC is rejected.
C23_StatusAndTampered ==
    \A t \in Tasks :
       task[t].op = "validate" =>
          LET r == task[t].raw
          IN  /\ Len(r) = 2 => task[t].ret = "resp" /\ task[t].resp = r
              /\ (Len(r) >= 4 /\ r[Len(r)] # calculate_crc(ButLastTwo(r))[2])
                    => task[t].ret = "None"

\* A data response with a valid CRC but for its last byte has been rejected.
C23_Witness ==
    /\ task["user"].op = "validate" /\ task["user"].ret = "None"
    /\ Len(task["user"].raw) = 8
    /\ task["user"].raw[7] = calculate_crc(ButLastTwo(task["user"].raw))[1]

\* C24: for a set-position request whose value is outside 0..100 no frame
\* is written to the connection and no attempt follows the first.
C24_OutOfRangeRefused ==
    \A t \in Tasks :
       (task[t].call = "set" /\ task[t].position \notin 0..100) =>
          /\ ~(lock = t /\ wire # <<>>)
          /\ task[t].pc \notin {"drain", "read", "retry_sleep"}
          /\ task[t].attempt = 0

\* C27: when an update returns, last_position is the position it read,
\* whatever the motor status it read.
C27_LastPositionEveryCycle ==
    [][ \A t \in Tasks :
          UpdateReturns(t) => cover'.last_position = task[t].pos
      ]_vars

\* C28: an update with no motor error that reads an intermediate position p
\* while no target is pending and a last position is known leaves the entity
\* Opening when p is above the last position, Closing when it is below, and
\* settled, Open when p > 50 and Closed otherwise, when it is the same; no
\* target appears.
C28_IntermediateNoTarget ==
    [][ \A t \in Tasks :
          LET p == task[t].pos
              last == cover.last_position
          IN  ( /\ UpdateReturns(t) /\ task[t].motor_status # 2
                /\ p \in 1..99 /\ cover.target_position = None
                /\ last # None ) =>
                 /\ p > last => cover'.state = "opening"
                 /\ p < last => cover'.state = "closing"
                 /\ p = last =>
                       cover'.state = IF p > 50 THEN "open" ELSE "closed"
                 /\ cover'.target_position = None
                 /\ cover'.current_position = p
      ]_vars

\* Two updates, no command: the second has read 80 and the entity is
\* Opening, which without a target it is only when the first read less.
C28_Witness ==
    /\ ops = 2
    /\ task["user"].call = "update" /\ task["user"].pc = "done"
    /\ cover.state = "opening" /\ cover.current_position = 80
    /\ cover.target_position = None /\ cover.motor_status = 0

\* C29: async_stop_cover writes no frame but the Stop command (function
\* 0x03, sub-code 0x03) and makes no read; when it returns the target
\* position is None and the reported position and last_position are as they
\* were.
C29_StopClearsTarget ==
    [][ \A t \in Tasks :
          /\ task'[t].call = "stop" =>
                /\ task'[t].op = "cmd" /\ task'[t].readIdx = 0
                /\ (lock' = t /\ wire' # <<>>) =>
                      wire' = Frames[<<device_id_l', device_id_h'>>,
                                     <<CURTAIN_COMMAND, CURTAIN_COMMAND_STOP>>]
          /\ HandlerReturns(t, "stop") =>
                /\ cover'.target_position = None
                /\ cover'.current_position = cover.current_position
                /\ cover'.last_position = cover.last_position
      ]_vars

\* An open command, then a stop the device answered: the entity is still
\* Opening and has no target.
C29_Witness ==
    /\ ops = 2
    /\ task["user"].call = "stop" /\ task["user"].pc = "done"
    /\ task["user"].ret = "resp"
    /\ cover.state = "opening" /\ cover.target_position = None

\* A read of task t's read_all_status ends in this step.
ReadEnds(t) ==
    /\ task[t].op = "read" /\ task[t].call = "none"
    /\ task[t].readIdx >= 1 /\ task'[t].readIdx # task[t].readIdx

\* The k-th read makes no value of a, what its command returned: None, a
\* response with no data byte, a position byte that is no percentage.
NoValue(k, a) == a = <<>> \/ Len(a) < 6 \/ (k = 1 /\ a[6] > 100)

\* C30: a cycle of read_all_status begins with every field None and makes
\* its five reads in the order position, motor status, active switch,
\* passive switch, handle status, the next one whatever the one before
\* returned; a read sets its own field only, to None exactly when its
\* command returned no value and to the data byte otherwise; the fields of
\* the reads still to come are None.
C30_AllReadsFresh ==
    [][ \A t \in traced :
          LET k == task[t].readIdx
              n == Len(ReadRegisters)
          IN  /\ (task'[t].op = "read" /\ task'[t].pc \notin {"idle", "done"}) =>
                    /\ task'[t].readIdx \in 1..n
                    /\ task'[t].cmd = ReadCommand(task'[t].readIdx)
              /\ (task'[t].op = "read" /\ k = 0 /\ task'[t].readIdx = 1) =>
                    \A j \in 1..n : task'[t].result[j] = None
              /\ ReadEnds(t) =>
                    /\ IF k < n
                       THEN task'[t].readIdx = k + 1 /\ task'[t].pc # "done"
                       ELSE task'[t].pc = "done" /\ task'[t].ret = "dict"
                    /\ \A j \in 1..n :
                          /\ j # k => task'[t].result[j] = task[t].result[j]
                          /\ j > k => task'[t].result[j] = None
                    /\ task'[t].result[k] = None
                          <=> NoValue(k, task'[t].answers[k])
                    /\ task'[t].result[k] # None =>
                          task'[t].result[k] = task'[t].answers[k][6]
      ]_vars

\* The second cycle has returned its dict: its position read failed, its
\* other reads gave their values.
C30_Witness ==
    /\ ops = 2 /\ coordinator_data.cycle = 2
    /\ task["poller"].pc = "done" /\ task["poller"].ret = "dict"
    /\ task["poller"].answers[1] = <<>>
    /\ task["poller"].result = <<None, MOTOR_STATUS_ERROR, 0, 0, 0>>

\* An attempt of task t's command that failed in a branch that calls
\* _cleanup_connection returns in this step.
TornAttemptEnds(t) ==
    /\ task[t].pc \in {"drain", "read", "cleanup"}
    /\ task'[t].pc = "retry_sleep" /\ task'[t].torn

\* The attempt after such a failure writes its frame in this step.
WritesAfterTorn(t) ==
    /\ task[t].torn /\ task[t].pc # "drain" /\ task'[t].pc = "drain"

\* C26, as stated: when an attempt that failed by a response timeout, an
\* empty read, a drain timeout or a connection error returns, there is no
\* writer and connected is false; the next attempt of the command writes its
\* frame in the step in which the open_connection it began itself returns.
C26_ReconnectsItself ==
    [][ \A t \in Tasks :
          /\ TornAttemptEnds(t) =>
                writer' = "none" /\ reader' = "none" /\ ~connected'
          /\ WritesAfterTorn(t) => task[t].pc = "conn_open"
      ]_vars

\* C26, amended: when such an attempt returns there is no writer and
\* connected is false; the next attempt writes its frame only to a
\* connection that is established then: one it establishes itself, one
\* whose establishment by another task it waited for, or one another task
\* has established since.
C26_TornDownThenReconnected ==
    [][ \A t \in Tasks :
          /\ TornAttemptEnds(t) =>
                writer' = "none" /\ reader' = "none" /\ ~connected'
          /\ WritesAfterTorn(t) =>
                /\ writer' = "open" /\ connected' /\ lock' = t
                /\ \/ task[t].pc \in {"conn_open", "conn_wait"}
                   \/ writer = "open" /\ connected
      ]_vars

\* The second attempt of a command has its open_connection in flight after
\* the first was torn down: there is no writer.
C26_Witness ==
    \E t \in Tasks :
       /\ task[t].torn /\ task[t].attempt = 1 /\ task[t].pc = "conn_open"
       /\ writer = "none" /\ ~connected

\* C25: every operation that has been called returns.
C25_EveryOperationReturns ==
    \A t \in Tasks : (task[t].pc \notin {"idle", "done"}) ~> (task[t].pc = "done")

\* program_device_address has returned after it waited for the gate longer
\* than any timeout of the controller lasts, and the poll cycle, whose
\* reads held the gate meanwhile, has returned as well.
C25_Witness ==
    /\ task["admin"].op = "prog" /\ task["admin"].pc = "done"
    /\ task["admin"].overdue
    /\ task["poller"].op = "read" /\ task["poller"].pc = "done"
    /\ task["poller"].ret = "dict"

\* The frame on the wire is the one the task in the exchange wrote: a
\* command frame made of the start code, the stored address, the command
\* and the CRC of these; a write-address frame addressed to (0, 0) that
\* carries the new low byte, then the new high byte.
FramesAddressed ==
    \A t \in Tasks :
       /\ (task[t].pc \in {"drain", "read"}) =>
              wire = WithCrc(<<START_CODE, device_id_l, device_id_h>>
                                 \o task[t].cmd)
       /\ (task[t].pc \in {"prog_drain", "confirm"}) =>
              /\ Len(wire) = 10
              /\ <<wire[1], wire[2], wire[3], wire[4]>> =
                     <<START_CODE, 0, 0, DEVICE_ADDRESS_WRITE>>
              /\ <<wire[7], wire[8]>> = <<task[t].new_id_l, task[t].new_id_h>>
              /\ wire = WithCrc(SubSeq(wire, 1, 8))

\* program_device_address returns True in this step.
ProgramSucceeds(t) ==
    /\ task[t].op = "prog" /\ task[t].pc # "done"
    /\ task'[t].pc = "done" /\ task'[t].ret = "True"

\* C31: every frame carries the address stored when it was written; the
\* stored address becomes (l, h) in the step in which
\* program_device_address returns True for (l, h) and changes in no other
\* step, so that later command frames are addressed to (l, h) after a
\* success and to the address stored before after a failure; and the
\* write-address frame is addressed to (0, 0) and carries the new low byte,
\* then the new high byte.
C31_FramesCarryStoredAddress ==
    /\ []FramesAddressed
    /\ [][ /\ \A t \in Tasks :
                 ProgramSucceeds(t) =>
                    <<device_id_l', device_id_h'>> =
                        <<task'[t].new_id_l, task'[t].new_id_h>>
           /\ (~ \E t \in Tasks : ProgramSucceeds(t)) =>
                 <<device_id_l', device_id_h'>> = <<device_id_l, device_id_h>>
         ]_vars

\* program_device_address wrote its frame and returned False on an empty
\* confirmation, and a command that came after it is in its exchange with
\* a frame that carries the address stored before.
C31_Witness ==
    \E t \in Tasks :
       /\ task[t].pc = "read" /\ task[t].op = "cmd"
       /\ task["admin"].op = "prog" /\ task["admin"].pc = "done"
       /\ task["admin"].ret = "False" /\ task["admin"].request # <<>>
       /\ <<task["admin"].new_id_l, task["admin"].new_id_h>> # InitAddr
       /\ <<wire[2], wire[3]>> = InitAddr

\* C32: the gate is held only by a task inside an attempt of a command or
\* inside program_device_address: a task that sleeps between two attempts,
\* waits for the gate, or has returned does not hold it, and whoever is in
\* an exchange holds it.
C32_GateFreeBetweenAttempts ==
    \A t \in Tasks :
       /\ task[t].pc \in {"retry_sleep", "gate", "idle", "done"} => lock # t
       /\ InExchange(t) => lock = t

\* Between the first and the second attempt of a command another caller's
\* command is in its exchange.
C32_Witness ==
    \E t, u \in Tasks :
       /\ t # u
       /\ task[t].pc = "retry_sleep" /\ task[t].attempt = 0
       /\ task[t].tries = 1
       /\ task[u].pc = "read" /\ task[u].op \in {"cmd", "read"}
       /\ lock = u

\* Task t takes the gate in this step and runs the code under it to its
\* first await, ensure_connected() first.
EntersGate(t) ==
    /\ lock' = t
    /\ \/ lock # t
       \/ task'[t].tries # task[t].tries
       \/ task'[t].readIdx # task[t].readIdx

\* C33: a step in which ensure_connected() is called on a connected
\* controller opens no socket, closes nothing and leaves reader, writer,
\* connected and connecting as they were; its caller goes on as after True,
\* to the write of its frame or to the listen loop.
C33_EnsureConnectedNoOp ==
    [][ \A t \in Tasks :
           (EntersGate(t) /\ is_connected(State)) =>
               /\ UNCHANGED <<reader, writer, connected, connecting,
                              inflight, live, closeQ, staleW>>
               /\ task'[t].pc \in {"drain", "listen"}
      ]_vars

\* The poller, alone, has had the answer to its first read and is in the
\* exchange of its second: the ensure_connected() of the second read found
\* the connection of the first.
C33_Witness ==
    /\ task["poller"].pc = "drain" /\ task["poller"].readIdx = 2
    /\ task["poller"].tries = 1 /\ task["poller"].usable
    /\ task["user"].pc = "idle" /\ task["admin"].pc = "idle"
    /\ writer = "open" /\ connected /\ live = 1

\* C34: a response returned to a command is a response of the device to
\* that command's own frame.
C34_OwnReplyOnly ==
    \A t \in Tasks :
       (task[t].op = "cmd" /\ task[t].pc = "done" /\ task[t].ret = "resp") =>
           task[t].resp \in CommandReplies


\* C39: whenever the connected flag is set the reader and the writer are
\* present, the reader and the writer are set and cleared together, and
\* is_connected is never true while a connection attempt is in progress.
C39_ConnectionStateConsistent ==
    /\ connected => (reader = "some" /\ writer # "none")
    /\ (reader = "none") <=> (writer = "none")
    /\ ~(connecting /\ is_connected(State))

\* A connection attempt is in progress on a controller whose flag is still
\* set: the old writer is being closed.
C39_Witness ==
    /\ connecting /\ connected /\ writer = "closing"
    /\ \E t \in Tasks : task[t].pc = "conn_cleanup"


\* C38: a connect() that found an attempt in progress and waited for it
\* returns only when that attempt is over, and so reports its outcome.  Stated
\* for the callers whose wait nothing else can end: the poll cycle and
\* program_device_address, which call connect() outside the time limit of a
\* command.
C38_WaiterReportsOutcome ==
    [][ \A t \in Tasks :
           (/\ task[t].pc = "conn_wait" /\ ~InScope(State, t)
            /\ task'[t].pc # "conn_wait") => ~connecting ]_vars


\* C37: once disconnect() has completed and no operation is called after
\* it, the controller is not connected, whatever operations were in
\* progress when disconnect() was called.
C37_StaysDisconnected ==
    (task["admin"].op = "disc" /\ task["admin"].pc = "done") =>
        ~is_connected(State)


\* C36: the movement flags of the cover entity agree with its state:
\* is_opening, is_closing and is_closed are true exactly when the state is
\* opening, closing and closed, so that no flag is set in the states error,
\* unknown and open.
C36_FlagsAgreeWithState ==
    /\ is_opening(cover) <=> state(cover) = "opening"
    /\ is_closing(cover) <=> state(cover) = "closing"
    /\ is_closed(cover) <=> state(cover) = "closed"


\* C35: an async_update that read the position before a command handler was
\* called, and returns after that handler has set a target, leaves the
\* target and the state the handler set as they are.
C35_StaleUpdateKeepsTarget ==
    [][ ( /\ UpdateReturns("poller")
          /\ task["user"].pc = "done"
          /\ task["user"].call \in {"open", "close", "set"}
          /\ cover.target_position # None )
        => ( /\ cover'.target_position = cover.target_position
             /\ cover'.state = cover.state ) ]_vars

====
